---- MODULE Spec2Model ----
(***************************************************************************)
(* The redirect dispatcher of the generated affiliate preview pages        *)
(* (scripts/generate-affiliate-links.js, the in-page script of `template`) *)
(* and its deep-link normalizer normalizeIntentLink.                       *)
(*                                                                         *)
(* A JavaScript string is a sequence of one-character strings, so that     *)
(* startsWith, split, replace, toLowerCase, encodeURIComponent and the     *)
(* regular expressions of the source are computed character by character.  *)
(* The JavaScript value undefined is the one-element sequence Undefined,    *)
(* whose element is no character.                                           *)
(***************************************************************************)
EXTENDS Integers, Sequences, FiniteSets, TLC

\* ------------------------------------------------------------------------
\* String literals of the source
\* ------------------------------------------------------------------------

S_intent ==
    <<"i", "n", "t", "e", "n", "t", ":", "/", "/">>

S_HashIntentSemi ==
    <<"#", "I", "n", "t", "e", "n", "t", ";">>

S_HashIntent ==
    <<"#", "I", "n", "t", "e", "n", "t">>

S_package ==
    <<"p", "a", "c", "k", "a", "g", "e", "=">>

S_component ==
    <<"c", "o", "m", "p", "o", "n", "e", "n", "t", "=">>

S_end ==
    <<"e", "n", "d">>

S_scheme ==
    <<"s", "c", "h", "e", "m", "e", "=">>

S_schemeHttps ==
    <<"s", "c", "h", "e", "m", "e", "=", "h", "t", "t", "p", "s">>

S_fallbackParam ==
    <<"S", ".", "b", "r", "o", "w", "s", "e", "r", "_", "f", "a", "l", "l", "b", "a", "c", "k", "_", "u", "r", "l", "=">>

S_semiFallbackParam ==
    <<";", "S", ".", "b", "r", "o", "w", "s", "e", "r", "_", "f", "a", "l", "l", "b", "a", "c", "k", "_", "u", "r", "l", "=">>

S_httpsScheme ==
    <<"h", "t", "t", "p", "s", ":", "/", "/">>

S_httpScheme ==
    <<"h", "t", "t", "p", ":", "/", "/">>

S_actionView ==
    <<";", "a", "c", "t", "i", "o", "n", "=", "a", "n", "d", "r", "o", "i", "d", ".", "i", "n", "t", "e", "n", "t", ".", "a", "c", "t", "i", "o", "n", ".", "V", "I", "E", "W">>

S_comDot ==
    <<"c", "o", "m", ".">>

S_schemeSep ==
    <<":", "/", "/">>

S_semiEnd ==
    <<";", "e", "n", "d">>

S_semi ==
    <<";">>

S_dot ==
    <<".">>

S_intentTail ==
    <<"#", "I", "n", "t", "e", "n", "t", ";", "s", "c", "h", "e", "m", "e", "=", "h", "t", "t", "p", "s", ";", "a", "c", "t", "i", "o", "n", "=", "a", "n", "d", "r", "o", "i", "d", ".", "i", "n", "t", "e", "n", "t", ".", "a", "c", "t", "i", "o", "n", ".", "V", "I", "E", "W", ";", "S", ".", "b", "r", "o", "w", "s", "e", "r", "_", "f", "a", "l", "l", "b", "a", "c", "k", "_", "u", "r", "l", "=">>

S_deeplinkIos ==
    <<"_", "d", "e", "e", "p", "l", "i", "n", "k", "_", "i", "o", "s">>

S_deeplinkAndroid ==
    <<"_", "d", "e", "e", "p", "l", "i", "n", "k", "_", "a", "n", "d", "r", "o", "i", "d">>

S_slash ==
    <<"/">>

S_undefinedText ==
    <<"u", "n", "d", "e", "f", "i", "n", "e", "d">>

S_dotHtml ==
    <<".", "h", "t", "m", "l">>

S_index ==
    <<"i", "n", "d", "e", "x">>

S_true ==
    <<"t", "r", "u", "e">>

S_variantEq ==
    <<"v", "a", "r", "i", "a", "n", "t", "=">>

S_home ==
    <<"h", "o", "m", "e">>

S_amzn ==
    <<"a", "m", "z", "n">>

S_xSafari ==
    <<"x", "-", "s", "a", "f", "a", "r", "i", "-">>

S_siteRoot ==
    <<"h", "t", "t", "p", "s", ":", "/", "/", "w", "w", "w", ".", "o", "u", "t", "d", "o", "o", "r", "s", "a", "v", "a", "n", "n", "a", "h", ".", "c", "o", "m">>
\* The percent-escapes of the printable ASCII characters (the backquote left
\* out): <<character, hex, hex>>.
PctCodes ==
    <<
       <<" ", "2", "0">>, <<"!", "2", "1">>, <<"\"", "2", "2">>, <<"#", "2", "3">>, <<"$", "2", "4">>,
       <<"%", "2", "5">>, <<"&", "2", "6">>, <<"'", "2", "7">>, <<"(", "2", "8">>, <<")", "2", "9">>,
       <<"*", "2", "A">>, <<"+", "2", "B">>, <<",", "2", "C">>, <<"-", "2", "D">>, <<".", "2", "E">>,
       <<"/", "2", "F">>, <<"0", "3", "0">>, <<"1", "3", "1">>, <<"2", "3", "2">>, <<"3", "3", "3">>,
       <<"4", "3", "4">>, <<"5", "3", "5">>, <<"6", "3", "6">>, <<"7", "3", "7">>, <<"8", "3", "8">>,
       <<"9", "3", "9">>, <<":", "3", "A">>, <<";", "3", "B">>, <<"<", "3", "C">>, <<"=", "3", "D">>,
       <<">", "3", "E">>, <<"?", "3", "F">>, <<"@", "4", "0">>, <<"A", "4", "1">>, <<"B", "4", "2">>,
       <<"C", "4", "3">>, <<"D", "4", "4">>, <<"E", "4", "5">>, <<"F", "4", "6">>, <<"G", "4", "7">>,
       <<"H", "4", "8">>, <<"I", "4", "9">>, <<"J", "4", "A">>, <<"K", "4", "B">>, <<"L", "4", "C">>,
       <<"M", "4", "D">>, <<"N", "4", "E">>, <<"O", "4", "F">>, <<"P", "5", "0">>, <<"Q", "5", "1">>,
       <<"R", "5", "2">>, <<"S", "5", "3">>, <<"T", "5", "4">>, <<"U", "5", "5">>, <<"V", "5", "6">>,
       <<"W", "5", "7">>, <<"X", "5", "8">>, <<"Y", "5", "9">>, <<"Z", "5", "A">>, <<"[", "5", "B">>,
       <<"\\", "5", "C">>, <<"]", "5", "D">>, <<"^", "5", "E">>, <<"_", "5", "F">>,
       <<"a", "6", "1">>, <<"b", "6", "2">>, <<"c", "6", "3">>, <<"d", "6", "4">>, <<"e", "6", "5">>,
       <<"f", "6", "6">>, <<"g", "6", "7">>, <<"h", "6", "8">>, <<"i", "6", "9">>, <<"j", "6", "A">>,
       <<"k", "6", "B">>, <<"l", "6", "C">>, <<"m", "6", "D">>, <<"n", "6", "E">>, <<"o", "6", "F">>,
       <<"p", "7", "0">>, <<"q", "7", "1">>, <<"r", "7", "2">>, <<"s", "7", "3">>, <<"t", "7", "4">>,
       <<"u", "7", "5">>, <<"v", "7", "6">>, <<"w", "7", "7">>, <<"x", "7", "8">>, <<"y", "7", "9">>,
       <<"z", "7", "A">>, <<"{", "7", "B">>, <<"|", "7", "C">>, <<"}", "7", "D">>, <<"~", "7", "E">>
    >>

UpperLetters ==
    <<"A", "B", "C", "D", "E", "F", "G", "H", "I", "J", "K", "L", "M", "N", "O", "P", "Q", "R", "S", "T", "U", "V", "W", "X", "Y", "Z">>

LowerLetters ==
    <<"a", "b", "c", "d", "e", "f", "g", "h", "i", "j", "k", "l", "m", "n", "o", "p", "q", "r", "s", "t", "u", "v", "w", "x", "y", "z">>

\* ------------------------------------------------------------------------
\* JavaScript values and String.prototype operations
\* ------------------------------------------------------------------------
Undefined == <<"<undefined>">>

Null == <<"<null>">>

URIError == <<"<URIError>">>

\* Boolean coercion of a string-or-undefined value (!x is ~Truthy(x)).
Truthy(v) == v # Undefined /\ v # Null /\ v # <<>>

\* String coercion, as in  undefined + "_deeplink_android".
Str(v) == IF v = Undefined THEN S_undefinedText ELSE v

Letters == {UpperLetters[i] : i \in 1..26} \cup {LowerLetters[i] : i \in 1..26}

Digits == {"0", "1", "2", "3", "4", "5", "6", "7", "8", "9"}

ToLowerChar(c) ==
    IF \E i \in 1..26 : UpperLetters[i] = c
    THEN LowerLetters[CHOOSE i \in 1..26 : UpperLetters[i] = c]
    ELSE c

ToUpperChar(c) ==
    IF \E i \in 1..26 : LowerLetters[i] = c
    THEN UpperLetters[CHOOSE i \in 1..26 : LowerLetters[i] = c]
    ELSE c

ToLowerCase(s) == [i \in 1..Len(s) |-> ToLowerChar(s[i])]

StartsWith(s, p) == Len(p) <= Len(s) /\ SubSeq(s, 1, Len(p)) = p

EndsWith(s, p) == Len(p) <= Len(s) /\ SubSeq(s, Len(s) - Len(p) + 1, Len(s)) = p

Drop(s, n) == SubSeq(s, n + 1, Len(s))

\* 1-based index of the first occurrence of p in s, 0 when there is none.
IndexOf(s, p) ==
    LET hits == {i \in 1..(Len(s) - Len(p) + 1) : SubSeq(s, i, i + Len(p) - 1) = p}
    IN  IF hits = {} THEN 0 ELSE CHOOSE i \in hits : \A j \in hits : i <= j

Includes(s, p) == IndexOf(s, p) # 0

\* s.split(sep) for a non-empty separator.
RECURSIVE Split(_, _)
Split(s, sep) ==
    LET i == IndexOf(s, sep)
    IN  IF i = 0 THEN <<s>>
        ELSE <<SubSeq(s, 1, i - 1)>> \o Split(Drop(s, i + Len(sep) - 1), sep)

RECURSIVE Join(_, _)
Join(parts, sep) ==
    IF parts = <<>> THEN <<>>
    ELSE IF Len(parts) = 1 THEN parts[1]
    ELSE parts[1] \o sep \o Join(Tail(parts), sep)

\* Length of the longest prefix of s whose characters all lie in C.
PrefixLen(s, C) ==
    LET bad == {i \in 1..Len(s) : s[i] \notin C}
    IN  IF bad = {} THEN Len(s) ELSE (CHOOSE i \in bad : \A j \in bad : i <= j) - 1

Whitespace == {" "}

RECURSIVE TrimStart(_)
TrimStart(s) == IF s # <<>> /\ s[1] \in Whitespace THEN TrimStart(Tail(s)) ELSE s

RECURSIVE TrimEnd(_)
TrimEnd(s) ==
    IF s # <<>> /\ s[Len(s)] \in Whitespace THEN TrimEnd(SubSeq(s, 1, Len(s) - 1)) ELSE s

Trim(s) == TrimEnd(TrimStart(s))

\* s.replace(/^https?:\/\//, "")
StripHttpScheme(s) ==
    IF StartsWith(s, S_httpsScheme) THEN Drop(s, Len(S_httpsScheme))
    ELSE IF StartsWith(s, S_httpScheme) THEN Drop(s, Len(S_httpScheme))
    ELSE s

\* /^https?:\/\//i.test(s)
HasHttpSchemeI(s) ==
    \/ StartsWith(ToLowerCase(s), S_httpsScheme)
    \/ StartsWith(ToLowerCase(s), S_httpScheme)

\* s.replace(/^https?:\/\//i, "")
StripHttpSchemeI(s) ==
    IF StartsWith(ToLowerCase(s), S_httpsScheme) THEN Drop(s, Len(S_httpsScheme))
    ELSE IF StartsWith(ToLowerCase(s), S_httpScheme) THEN Drop(s, Len(S_httpScheme))
    ELSE s

\* s.replace(/;;+/g, ";"): a ";" that follows a ";" is dropped.
CollapseSemis(s) ==
    LET idx == [i \in 1..Len(s) |-> i]
        keep(i) == ~(s[i] = ";" /\ i > 1 /\ s[i - 1] = ";")
        kept == SelectSeq(idx, keep)
    IN  [k \in 1..Len(kept) |-> s[kept[k]]]

\* ------------------------------------------------------------------------
\* encodeURIComponent / decodeURIComponent (printable ASCII)
\* ------------------------------------------------------------------------
Unreserved == Letters \cup Digits \cup {"-", "_", ".", "!", "~", "*", "'", "(", ")"}

EncodeChar(c) ==
    IF c \in Unreserved THEN <<c>>
    ELSE LET e == CHOOSE i \in 1..Len(PctCodes) : PctCodes[i][1] = c
         IN  <<"%", PctCodes[e][2], PctCodes[e][3]>>

\* The escapes of the two halves of s, concatenated.
RECURSIVE encodeURIComponent(_)
encodeURIComponent(s) ==
    IF s = <<>> THEN <<>>
    ELSE IF Len(s) = 1 THEN EncodeChar(s[1])
    ELSE encodeURIComponent(SubSeq(s, 1, Len(s) \div 2))
             \o encodeURIComponent(SubSeq(s, Len(s) \div 2 + 1, Len(s)))

\* The character a "%hh" escape names, or Undefined when there is none.
DecodeEscape(h1, h2) ==
    LET hit == {i \in 1..Len(PctCodes) :
                   PctCodes[i][2] = ToUpperChar(h1) /\ PctCodes[i][3] = ToUpperChar(h2)}
    IN  IF hit = {} THEN "<none>" ELSE PctCodes[CHOOSE i \in hit : TRUE][1]

\* A "%" must be followed by two hex digits naming a character; a truncated
\* escape, a non-hex escape or a lone byte >= 0x80 raises URIError. The two
\* characters after a "%" are hex digits, so no escape starts inside another.
decodeURIComponent(s) ==
    LET idx == [i \in 1..Len(s) |-> i]
        wellFormed == \A i \in 1..Len(s) :
                         s[i] = "%" => /\ i + 2 <= Len(s)
                                       /\ DecodeEscape(s[i + 1], s[i + 2]) # "<none>"
        keep(i) == /\ ~(i > 1 /\ s[i - 1] = "%")
                   /\ ~(i > 2 /\ s[i - 2] = "%")
        kept == SelectSeq(idx, keep)
    IN  IF ~wellFormed THEN URIError
        ELSE [k \in 1..Len(kept) |->
                 IF s[kept[k]] = "%"
                 THEN DecodeEscape(s[kept[k] + 1], s[kept[k] + 2])
                 ELSE s[kept[k]]]

\* ------------------------------------------------------------------------
\* normalizeIntentLink (generate-affiliate-links.js, lines 253-370)
\* ------------------------------------------------------------------------
PrefixLenNot(s, X) ==
    LET bad == {i \in 1..Len(s) : s[i] \in X}
    IN  IF bad = {} THEN Len(s) ELSE (CHOOSE i \in bad : \A j \in bad : i <= j) - 1

\* prefix.replace(/^intent:\/\//, "")
StripIntentScheme(s) == IF StartsWith(s, S_intent) THEN Drop(s, Len(S_intent)) ELSE s

\* filteredParts without its package= test.
filteredParts_KeepPackage(intentPart) ==
    LET keep(part) == /\ ~StartsWith(part, S_component)
                      /\ ~StartsWith(Trim(part), S_end)
        kept == SelectSeq(Split(intentPart, S_semi), keep)
    IN  [i \in 1..Len(kept) |->
            IF StartsWith(kept[i], S_scheme) THEN S_schemeHttps ELSE kept[i]]

\* The ";"-separated parameters kept by the filter, scheme= forced to https.
filteredParts(intentPart) ==
    LET keep(part) == /\ ~StartsWith(part, S_package)
                      /\ ~StartsWith(part, S_component)
                      /\ ~StartsWith(Trim(part), S_end)
        kept == SelectSeq(Split(intentPart, S_semi), keep)
    IN  [i \in 1..Len(kept) |->
            IF StartsWith(kept[i], S_scheme) THEN S_schemeHttps ELSE kept[i]]

normalizeFallbackUrl(url) ==
    IF ~Truthy(url) THEN Null
    ELSE LET t == Trim(url)
         IN  IF HasHttpSchemeI(t) THEN t ELSE S_httpsScheme \o StripHttpSchemeI(t)

\* Code points the URL host parser rejects.
ForbiddenHostChars ==
    {" ", "#", "/", ":", "<", ">", "?", "@", "[", "\\", "]", "^", "|", "%"}

\* new URL(url) succeeds. The argument is null or begins with http(s)://; the
\* parser skips the slashes after the scheme, reads the authority up to the
\* first "/", "?", "#" or "\", takes the host after the last "@" and before a
\* ":" that starts a numeric port, and fails on an empty or forbidden host.
isValidUrl(url) ==
    IF url = Null \/ url = Undefined \/ ~HasHttpSchemeI(url) THEN FALSE
    ELSE LET afterColon == Drop(url, IndexOf(url, <<":">>))
             body == Drop(afterColon, PrefixLen(afterColon, {"/", "\\"}))
             authority == SubSeq(body, 1, PrefixLenNot(body, {"/", "?", "#", "\\"}))
             atParts == Split(authority, <<"@">>)
             hostPort == atParts[Len(atParts)]
             colon == IndexOf(hostPort, <<":">>)
             host == IF colon = 0 THEN hostPort ELSE SubSeq(hostPort, 1, colon - 1)
             port == IF colon = 0 THEN <<>> ELSE Drop(hostPort, colon)
         IN  /\ host # <<>>
             /\ \A i \in 1..Len(host) : host[i] \notin ForbiddenHostChars
             /\ \A i \in 1..Len(port) : port[i] \in Digits
             /\ Len(port) <= 5

\* detectTldInIntent without the test of parts.length: any host passes.
detectTldInIntent_NoLabelCount(url) ==
    LET rest == Split(StripIntentScheme(url), S_HashIntent)[1]
    IN  PrefixLenNot(rest, {"/", "?", "#", "@"}) # 0

detectTldInIntent(url) ==
    LET rest == Split(StripIntentScheme(url), S_HashIntent)[1]
        n == PrefixLenNot(rest, {"/", "?", "#", "@"})
        host == ToLowerCase(SubSeq(rest, 1, n))
        parts == Split(host, S_dot)
        label(p) == p # <<>> /\ \A i \in 1..Len(p) : p[i] \in Letters \cup Digits \cup {"-"}
    IN  IF n = 0 THEN FALSE
        ELSE IF Len(parts) < 2 THEN FALSE
        ELSE label(parts[Len(parts) - 1]) /\ label(parts[Len(parts)])

\* url.match(/S\.browser_fallback_url=([^;]+)/): the captured group, or Null.
existingFallbackMatch(url) ==
    LET n == Len(S_fallbackParam)
        hits == {i \in 1..(Len(url) - n) :
                    /\ SubSeq(url, i, i + n - 1) = S_fallbackParam
                    /\ url[i + n] # ";"}
    IN  IF hits = {} THEN Null
        ELSE LET i == CHOOSE h \in hits : \A j \in hits : h <= j
                 tail == Drop(url, i + n - 1)
             IN  SubSeq(tail, 1, PrefixLenNot(tail, {";"}))

\* fallback.indexOf("https://") === 0 ? fallback
\*     : "https://" + fallback.replace(/^https?:\/\//, "")
httpsFallback(fallback) ==
    IF StartsWith(fallback, S_httpsScheme) THEN fallback
    ELSE S_httpsScheme \o StripHttpScheme(fallback)

\* The group of /^([a-zA-Z0-9.-]+\.[a-zA-Z]{2,})/ on the scheme-less fallback,
\* or the whole scheme-less fallback when the expression does not match.
fallbackHost(fallback) ==
    LET s == StripHttpScheme(fallback)
        n == PrefixLen(s, Letters \cup Digits \cup {".", "-"})
        lettersAfter(j) == PrefixLen(Drop(s, j), Letters)
        dots == {j \in 2..n : s[j] = "." /\ lettersAfter(j) >= 2}
    IN  IF dots = {} THEN s
        ELSE LET j == CHOOSE d \in dots : \A e \in dots : e <= d
             IN  SubSeq(s, 1, j + lettersAfter(j))

\* The intent:// branch (lines 262-346).
normalizeIntentBranch(url, fallback) ==
    LET split == Split(url, S_HashIntentSemi)
        prefix == split[1]
        intentPart == IF Len(split) >= 2 THEN split[2] ELSE Undefined
    IN  IF ~Truthy(intentPart) THEN url
        ELSE
        LET originalPath == StripIntentScheme(prefix)
            isTld == detectTldInIntent(url)
            existing == existingFallbackMatch(url)
            decoded == decodeURIComponent(existing)
            throws == \/ existing # Null /\ decoded = URIError
                      \/ existing = Null /\ fallback = Undefined
                      \/ ~isTld /\ fallback = Undefined
            browserFallback ==
                IF existing # Null
                THEN IF isValidUrl(normalizeFallbackUrl(decoded))
                     THEN normalizeFallbackUrl(decoded)
                     ELSE normalizeFallbackUrl(fallback)
                ELSE httpsFallback(fallback)
            normalizedPath ==
                IF isTld THEN originalPath
                ELSE fallbackHost(fallback) \o S_slash \o originalPath
            normalizedIntent ==
                S_intent \o normalizedPath \o S_HashIntentSemi
                    \o Join(filteredParts(intentPart), S_semi) \o S_actionView
                    \o (IF existing = Null
                        THEN S_semiFallbackParam \o encodeURIComponent(browserFallback)
                        ELSE <<>>)
                    \o S_semiEnd
        IN  IF throws THEN url ELSE CollapseSemis(normalizedIntent)

\* StripAppScheme with the app name left in place (only "com." removed).
StripAppScheme_KeepApp(url) ==
    IF StartsWith(url, S_comDot) THEN Drop(url, Len(S_comDot)) ELSE url

\* url.replace(/^com\.[a-zA-Z0-9._-]+:\/\//, "")
StripAppScheme(url) ==
    LET rest == Drop(url, Len(S_comDot))
        n == PrefixLen(rest, Letters \cup Digits \cup {".", "_", "-"})
    IN  IF StartsWith(url, S_comDot) /\ n >= 1 /\ StartsWith(Drop(rest, n), S_schemeSep)
        THEN Drop(rest, n + Len(S_schemeSep))
        ELSE url

\* normalizeAppBranch without the surrounding try/catch: the TypeError of an
\* undefined fallback leaves the caller without a URL.
normalizeAppBranch_NoCatch(url, fallback) ==
    IF fallback = Undefined THEN Undefined
    ELSE CollapseSemis(S_intent \o StripAppScheme(url) \o S_intentTail
                           \o encodeURIComponent(httpsFallback(fallback)) \o S_semiEnd)

\* The com.* branch (lines 348-361).
normalizeAppBranch(url, fallback) ==
    IF fallback = Undefined THEN url
    ELSE CollapseSemis(S_intent \o StripAppScheme(url) \o S_intentTail
                           \o encodeURIComponent(httpsFallback(fallback)) \o S_semiEnd)

normalizeIntentLink(url, fallback) ==
    IF ~Truthy(url) THEN url
    ELSE IF StartsWith(url, S_intent) THEN normalizeIntentBranch(url, fallback)
    ELSE IF StartsWith(url, S_comDot) THEN normalizeAppBranch(url, fallback)
    ELSE url

\* ------------------------------------------------------------------------
\* The page: its URL, its user agent and the fetched link table
\* ------------------------------------------------------------------------
VARIABLES
    productKey,     \* the "${productKey}" the page was generated with
    href,           \* window.location: [variantParam, skipParam, hash, pathname]
    ua,             \* navigator.userAgent
    pc,             \* "loading", "fetching" (awaiting the fetch), "done"; "off"
    variant,        \* the resolved variant
    fetches,        \* calls of fetch('/amazonLinks.json')
    amazonLinks,    \* the parsed response
    targetKey,
    targetLink,
    deeplink,       \* the platform deep link the branch looked up
    branch,         \* the navigation branch that ran
    navs,           \* the calls of window.location.replace / .href =, in order
    timers,         \* the pending setTimeout callbacks
    timersSet,      \* calls of setTimeout
    overlay,        \* the tap overlay: "none", "shown", "removed"
    iframes,        \* the src of every hidden iframe created by a tap
    taps,           \* clicks on the overlay
    now,            \* Date.now() - now, the milliseconds since the dispatch
    page,           \* "visible", "hidden" (backgrounded, timers held), "gone"
    wasHidden,      \* the page has been in the background since the dispatch
    stalled         \* a due callback was held back on a foreground page

VARIABLES nUrl, nParams, nFallback, nResult, nPc

\* deploy-static-site.js: one run of the deployment pipeline
VARIABLES
    dPc,            \* "rename", "move", "sitemap", "scripts", "running", "summary",
                    \* "exited"; "off" when no pipeline runs
    dFs,            \* which files exist: [index, renamed, root404, sitemap]
    dPreFailed,     \* the catch of the 404 pre-step ran
    dStarted,       \* the scripts execSync was called with, in order
    dFinished,      \* how many of them returned
    dFailed,        \* the step whose execSync threw, 0 when none did
    dSummary,       \* 'DEPLOYMENT COMPLETE' was logged
    dExit           \* the exit code of the process, -1 while it runs

dispVars ==
    <<productKey, href, ua, pc, variant, fetches, amazonLinks, targetKey, targetLink,
      deeplink, branch, navs, timers, timersSet, overlay, iframes, taps, now, page,
      wasHidden, stalled>>

normVars == <<nUrl, nParams, nFallback, nResult, nPc>>

deployVars == <<dPc, dFs, dPreFailed, dStarted, dFinished, dFailed, dSummary, dExit>>

VARIABLES
    env,        \* the bindings of the deployment: [KV, DB, bucket : BOOLEAN]
    clock,      \* Date.now()
    KV,         \* env.KV: the value stored under every key
    DB,         \* the table cat_shelf_guide: the row of every email
    reqs,       \* the requests being handled, one per isolate slot
    passed,     \* the calls of checkRateLimit that returned { blocked: false }
    outbox,     \* the access links mailed
    crafted     \* the access links clients make up

srvVars == <<env, clock, KV, DB, reqs, passed, outbox, crafted>>

vars == <<dispVars, normVars, deployVars, srvVars>>

S_productA ==
    <<"p", "r", "o", "d", "u", "c", "t", "/", "a">>

K_us ==
    <<"u", "s">>

K_uk ==
    <<"u", "k">>

K_usIos ==
    <<"u", "s", "_", "d", "e", "e", "p", "l", "i", "n", "k", "_", "i", "o", "s">>

K_usAndroid ==
    <<"u", "s", "_", "d", "e", "e", "p", "l", "i", "n", "k", "_", "a", "n", "d", "r", "o", "i", "d">>

U_us ==
    <<"h", "t", "t", "p", "s", ":", "/", "/", "a", ".", "c", "o", "/", "u", "s">>

U_uk ==
    <<"h", "t", "t", "p", "s", ":", "/", "/", "a", ".", "c", "o", "/", "u", "k">>

U_usIos ==
    <<"a", "m", "z", "n", "-", "a", "p", "p", ":", "/", "/", "a", ".", "c", "o", "/", "u", "s">>

U_usAndroid ==
    <<"i", "n", "t", "e", "n", "t", ":", "/", "/", "a", ".", "c", "o", "/", "u", "s", "#", "I", "n", "t", "e", "n", "t", ";", "p", "a", "c", "k", "a", "g", "e", "=", "c", "o", "m", ".", "a", "m", "z", "n", ";", "s", "c", "h", "e", "m", "e", "=", "h", "t", "t", "p", "s", ";", "e", "n", "d">>

U_appAndroid ==
    <<"c", "o", "m", ".", "a", "m", "z", "n", ".", "a", "p", "p", ":", "/", "/", "a", ".", "c", "o", "/", "u", "s">>

U_undecodableAndroid ==
    <<"i", "n", "t", "e", "n", "t", ":", "/", "/", "a", ".", "c", "o", "/", "u", "k", "#", "I", "n", "t", "e", "n", "t", ";", "s", "c", "h", "e", "m", "e", "=", "h", "t", "t", "p", "s", ";", "S", ".", "b", "r", "o", "w", "s", "e", "r", "_", "f", "a", "l", "l", "b", "a", "c", "k", "_", "u", "r", "l", "=", "%", ";", "e", "n", "d">>
U_unparsableAndroid ==
    <<"i", "n", "t", "e", "n", "t", ":", "/", "/", "a", ".", "c", "o", "/", "z", "z", "#", "I", "n", "t", "e", "n", "t", ";", "s", "c", "h", "e", "m", "e", "=", "h", "t", "t", "p", "s", ";", "S", ".", "b", "r", "o", "w", "s", "e", "r", "_", "f", "a", "l", "l", "b", "a", "c", "k", "_", "u", "r", "l", "=", "a", "%", "2", "0", "b", ";", "e", "n", "d">>

V_US ==
    <<"U", "S">>

V_zz ==
    <<"z", "z">>

H_variantUk ==
    <<"#", "v", "a", "r", "i", "a", "n", "t", "=", "u", "k">>

H_queryVariantUk ==
    <<"#", "?", "v", "a", "r", "i", "a", "n", "t", "=", "u", "k">>

PathIndex ==
    <<"/", "a", "f", "f", "i", "l", "i", "a", "t", "e", "/", "a", "m", "z", "n", "/", "i", "n", "d", "e", "x", ".", "h", "t", "m", "l">>

PathUk ==
    <<"/", "a", "f", "f", "i", "l", "i", "a", "t", "e", "/", "a", "m", "z", "n", "/", "u", "k", ".", "h", "t", "m", "l">>

PathPage ==
    <<"/", "a", "f", "f", "i", "l", "i", "a", "t", "e", "/", "p", "a", "g", "e", ".", "h", "t", "m", "l">>

UA_desktop ==
    <<"W", "i", "n", "d", "o", "w", "s", " ", "C", "h", "r", "o", "m", "e">>

UA_androidChrome ==
    <<"A", "n", "d", "r", "o", "i", "d", " ", "C", "h", "r", "o", "m", "e", " ", "M", "o", "b", "i", "l", "e">>

UA_androidFirefox ==
    <<"A", "n", "d", "r", "o", "i", "d", " ", "F", "i", "r", "e", "f", "o", "x", " ", "M", "o", "b", "i", "l", "e">>

UA_androidInstagram ==
    <<"A", "n", "d", "r", "o", "i", "d", " ", "C", "h", "r", "o", "m", "e", " ", "I", "n", "s", "t", "a", "g", "r", "a", "m">>

UA_iphoneSafari ==
    <<"i", "P", "h", "o", "n", "e", " ", "S", "a", "f", "a", "r", "i">>

UA_iphoneInstagram ==
    <<"i", "P", "h", "o", "n", "e", " ", "I", "n", "s", "t", "a", "g", "r", "a", "m">>

\* An Internet Explorer Mobile user agent: it names Android and iPhone both.
UA_windowsPhone ==
    <<"W", "i", "n", "d", "o", "w", "s", " ", "P", "h", "o", "n", "e", " ", "A", "n", "d", "r", "o", "i", "d", " ", "I", "E", "M", "o", "b", "i", "l", "e", " ", "l", "i", "k", "e", " ", "i", "P", "h", "o", "n", "e">>

UA_blackberry ==
    <<"B", "l", "a", "c", "k", "B", "e", "r", "r", "y">>

S_skipredirectOther ==
    <<"1">>

W_android ==
    <<"a", "n", "d", "r", "o", "i", "d">>

W_fbav ==
    <<"f", "b", "a", "v">>

W_semi_fbav ==
    <<";", "f", "b", "a", "v", "/">>

S_Android ==
    <<"A", "n", "d", "r", "o", "i", "d">>

\* The overlay clicks of one page load.
MaxTaps == 1

\* The keys of one VariantMap.
MaxKeys == 3

RootTimerMs == 2400

FallbackTimerMs == 900

ElapsedLimitMs == 1200

AndroidTapDelayMs == 20

IosTapDelayMs == 50

\* ---- user-agent detection (lines 151-168) ----
\* The alternatives of the regular expressions, in lower case (the "i" flag).
IosWords ==
    {<<"i", "p", "h", "o", "n", "e">>,
     <<"i", "p", "a", "d">>,
     <<"i", "p", "o", "d">>}

MobileWords ==
    {<<"m", "o", "b", "i", "l", "e">>,
     <<"i", "p", "h", "o", "n", "e">>,
     <<"i", "p", "a", "d">>,
     <<"i", "p", "o", "d">>,
     <<"a", "n", "d", "r", "o", "i", "d">>,
     <<"b", "l", "a", "c", "k", "b", "e", "r", "r", "y">>,
     <<"i", "e", "m", "o", "b", "i", "l", "e">>,
     <<"k", "i", "n", "d", "l", "e">>,
     <<"s", "i", "l", "k", "-", "a", "c", "c", "e", "l", "e", "r", "a", "t", "e", "d">>,
     <<"h", "p", "w", "o", "s">>,
     <<"w", "e", "b", "o", "s">>,
     <<"o", "p", "e", "r", "a", " ", "m", "o", "b", "i">>,
     <<"o", "p", "e", "r", "a", " ", "m", "i", "n", "i">>}

AppBrowserWords ==
    {<<"m", "e", "t", "a", "i", "a", "b">>,
     <<"i", "n", "s", "t", "a", "g", "r", "a", "m">>,
     <<"b", "a", "r", "c", "e", "l", "o", "n", "a">>,
     <<"t", "h", "r", "e", "a", "d", "s">>,
     <<"l", "i", "n", "k", "e", "d", "i", "n">>,
     <<"t", "w", "i", "t", "t", "e", "r">>,
     <<"t", "i", "k", "t", "o", "k">>,
     <<"w", "e", "c", "h", "a", "t">>,
     <<"l", "i", "n", "e">>}

FbInAppWords ==
    {<<"f", "b", "a", "n", "/", "f", "b", "i", "o", "s">>,
     <<"f", "b", "_", "i", "a", "b", "/", "f", "b", "4", "a">>}

\* The names ua.includes() looks for after 'Android' (lines 160-161).
ChromiumWords ==
    {<<"C", "h", "r", "o", "m", "e">>,
     <<"E", "d", "g">>,
     <<"O", "P", "R">>,
     <<"B", "r", "a", "v", "e">>}

IncludesI(s, w) == Includes(ToLowerCase(s), w)

isIOS(u) == \E w \in IosWords : IncludesI(u, w)

isAndroid(u) == IncludesI(u, W_android)

isMobile(u) == \E w \in MobileWords : IncludesI(u, w)

\* (?:fban\/fbios|fb_iab\/fb4a)(?!.+fbav): an occurrence not followed, at least
\* one character later, by fbav.
FbInApp(l) ==
    \E w \in FbInAppWords :
        \E i \in 1..(Len(l) - Len(w) + 1) :
            /\ SubSeq(l, i, i + Len(w) - 1) = w
            /\ ~Includes(Drop(l, i + Len(w)), W_fbav)

\* ;fbav\/([\w.]+);
FbavInApp(l) ==
    \E i \in 1..(Len(l) - Len(W_semi_fbav) + 1) :
        /\ SubSeq(l, i, i + Len(W_semi_fbav) - 1) = W_semi_fbav
        /\ LET rest == Drop(l, i + Len(W_semi_fbav) - 1)
               n == PrefixLen(rest, Letters \cup Digits \cup {"_", "."})
           IN  n >= 1 /\ n < Len(rest) /\ rest[n + 1] = ";"

isAppBrowser(u) ==
    LET l == ToLowerCase(u)
    IN  \/ FbInApp(l)
        \/ FbavInApp(l)
        \/ \E w \in AppBrowserWords : Includes(l, w)

isChromiumAndroid(u) ==
    /\ Includes(u, S_Android)
    /\ \E w \in ChromiumWords : Includes(u, w)

\* ---- variant parsing (lines 375-389) ----
\* url.hash.match(/[?&]variant=([^&]*)/): the group, or Null.
hashMatch(hash) ==
    LET n == Len(S_variantEq)
        hits == {i \in 1..(Len(hash) - n) :
                    /\ hash[i] \in {"?", "&"}
                    /\ SubSeq(hash, i + 1, i + n) = S_variantEq}
    IN  IF hits = {} THEN Null
        ELSE LET i == CHOOSE h \in hits : \A j \in hits : h <= j
                 tail == Drop(hash, i + n)
             IN  SubSeq(tail, 1, PrefixLenNot(tail, {"&"}))

\* window.location.pathname.split('/').pop().replace('.html', '')
filename(pathname) ==
    LET segs == Split(pathname, S_slash)
        last == segs[Len(segs)]
        i == IndexOf(last, S_dotHtml)
    IN  IF i = 0 THEN last
        ELSE SubSeq(last, 1, i - 1) \o Drop(last, i + Len(S_dotHtml) - 1)

parseVariant(key, loc) ==
    LET v1 == IF Truthy(loc.variantParam) THEN loc.variantParam
              ELSE IF hashMatch(loc.hash) # Null THEN hashMatch(loc.hash)
              ELSE loc.variantParam
        v2 == IF key = S_amzn /\ ~Truthy(v1) /\ filename(loc.pathname) # S_index
              THEN filename(loc.pathname)
              ELSE v1
    IN  IF Truthy(v2) THEN v2 ELSE <<>>

\* skipRedirect comparing with another value than 'true'.
skipRedirect_WrongValue(loc) == loc.skipParam = S_skipredirectOther

\* url.searchParams.get('skipredirect') === 'true'
skipRedirect(loc) == loc.skipParam = S_true

\* ---- target resolution (lines 439-445) ----
\* A VariantMap is the sequence of its [key, value] entries in Object.keys order.
ObjectKeys(m) == [i \in 1..Len(m) |-> m[i].key]

\* m[k], the key coerced to a string.
Get(m, k) ==
    IF \E i \in 1..Len(m) : m[i].key = Str(k)
    THEN m[CHOOSE i \in 1..Len(m) : m[i].key = Str(k)].value
    ELSE Undefined

\* IsDeeplinkKey that knows the Android suffix only.
IsDeeplinkKey_AndroidOnly(k) == EndsWith(k, S_deeplinkAndroid)

IsDeeplinkKey(k) == EndsWith(k, S_deeplinkIos) \/ EndsWith(k, S_deeplinkAndroid)

\* validKeys without the deep-link filter.
validKeys_NoFilter(productLinks) == ObjectKeys(productLinks)

validKeys(productLinks) ==
    LET plain(k) == ~IsDeeplinkKey(k) IN SelectSeq(ObjectKeys(productLinks), plain)

resolveTargetKey(productLinks, v) ==
    LET keys == validKeys(productLinks)
    IN  IF Truthy(v) /\ \E i \in 1..Len(keys) :
                            /\ ToLowerCase(keys[i]) = ToLowerCase(v)
                            /\ \A j \in 1..(i - 1) : ToLowerCase(keys[j]) # ToLowerCase(v)
                            /\ Truthy(keys[i])
        THEN v
        ELSE IF keys = <<>> THEN Undefined ELSE keys[1]

resolveTargetLink(productLinks, key) ==
    IF Truthy(Get(productLinks, key)) THEN Get(productLinks, key) ELSE S_slash

\* The keys the generator writes a page /affiliate/amzn/<key>.html for
\* (lines 621-623): the same filter, applied to the amzn VariantMap.
variantKeys(links) == validKeys(links[S_amzn])

\* ---- the inputs ----
ProductKeys == {<<>>, S_home, S_amzn, S_productA}

Pathnames(key) == IF key = S_amzn THEN {PathIndex, PathUk} ELSE {PathPage}

\* The hash is varied only where it is read: with no variant in the query.
PageUrls(key) ==
    {loc \in [variantParam : {Null, K_us, V_US, V_zz, K_usIos},
              skipParam : {Null, S_true},
              hash : {<<>>, H_variantUk, H_queryVariantUk},
              pathname : Pathnames(key)] :
        loc.variantParam # Null => loc.hash = <<>>}

UserAgents ==
    {UA_desktop, UA_androidChrome, UA_androidFirefox, UA_androidInstagram,
     UA_iphoneSafari, UA_iphoneInstagram, UA_blackberry, UA_windowsPhone}

LinkPool ==
    {[key |-> K_us, value |-> U_us], [key |-> K_uk, value |-> U_uk],
     [key |-> K_usIos, value |-> U_usIos], [key |-> K_usAndroid, value |-> U_usAndroid]}

\* Every VariantMap of at most MaxKeys entries of the pool, in every order.
VariantMaps ==
    UNION {{m \in [1..n -> LinkPool] : \A i, j \in 1..n : i # j => m[i] # m[j]} :
              n \in 0..MaxKeys}

\* The VariantMap of product/a: a com.* deep link for us, and for uk and zz
\* intent:// deep links whose S.browser_fallback_url cannot be decoded (uk) or
\* decodes to something that is no URL (zz).
AppVariantMap ==
    <<[key |-> K_us, value |-> U_us],
      [key |-> K_usAndroid, value |-> U_appAndroid],
      [key |-> K_uk, value |-> U_uk],
      [key |-> K_uk \o S_deeplinkAndroid, value |-> U_undecodableAndroid],
      [key |-> V_zz, value |-> U_us],
      [key |-> V_zz \o S_deeplinkAndroid, value |-> U_unparsableAndroid]>>

LinkTable(m) == (S_amzn :> m) @@ (S_productA :> AppVariantMap)

\* ------------------------------------------------------------------------
\* The DOMContentLoaded handler and what it leaves behind (lines 150-523)
\* ------------------------------------------------------------------------
Replace(to) == [how |-> "replace", to |-> to]

Assign(to) == [how |-> "href", to |-> to]

\* ------------------------------------------------------------------------
\* The Pages Functions: functions/api/cat-shelf-guide-email.js,
\* functions/api/unsubscribe.js and functions/api/guide-access.js
\* ------------------------------------------------------------------------
\* Date.now() is in milliseconds.
oneHour == 60 * 60 * 1000

oneDay == 24 * oneHour

MaxPasses == 12

\* The instants at which requests arrive: the start, just before an hour has
\* passed, the full hour, and the full day.
Arrivals == <<0, oneHour - 1, oneHour, oneDay>>

E_a ==
    <<"a", "@", "x", ".", "c", "o">>

E_b ==
    <<"b", "@", "x", ".", "c", "o">>

E_c ==
    <<"c", "@", "x", ".", "c", "o">>

E_plus ==
    <<"d", "+", "e", "@", "x", ".", "c", "o">>

IP_1 ==
    <<"1", ".", "1", ".", "1", ".", "1">>

Emails == {E_a, E_b, E_c, E_plus}

\* `rate_limit_email:${email}` and `rate_limit_ip:${ip}`
emailKey(email) == <<"rate_limit_email:", email>>

ipKey(ip) == <<"rate_limit_ip:", ip>>

KvKeys == {emailKey(e) : e \in Emails} \cup {ipKey(IP_1)}

\* A key that holds nothing, and the value a put stores: the JSON
\* {requests: [...]} and the time the key expires at.
KvAbsent == [present |-> FALSE, requests |-> <<>>, expires |-> 0]

KvValue(requests, at, expirationTtl) ==
    [present |-> TRUE, requests |-> requests, expires |-> at + expirationTtl * 1000]

\* env.KV.get(key, { type: "json" }): null once the key has expired.
KvGet(store, key, at) ==
    IF store[key].present /\ at < store[key].expires THEN store[key] ELSE KvAbsent

\* requests.filter(t => t > since).length
CountSince(requests, since) == Cardinality({i \in 1..Len(requests) : requests[i] > since})

\* Lines 393-398 with the hourly test letting a fourth request through.
emailBlocked_OffByOne(emailData, at) ==
    /\ emailData.present
    /\ \/ CountSince(emailData.requests, at - oneHour) > 3
       \/ CountSince(emailData.requests, at - oneDay) >= 5

\* Lines 388-398: the email has 3 requests in the last hour or 5 in the last day.
emailBlocked(emailData, at) ==
    /\ emailData.present
    /\ \/ CountSince(emailData.requests, at - oneHour) >= 3
       \/ CountSince(emailData.requests, at - oneDay) >= 5

\* Lines 413-419: the IP has 10 requests in the last hour.
ipBlocked(ipData, at) ==
    /\ ipData.present
    /\ CountSince(ipData.requests, at - oneHour) >= 10

\* /^[^\s@]+@[^\s@]+\.[^\s@]+$/.test(email)
emailRegexTest(email) ==
    /\ \A i \in 1..Len(email) : email[i] \notin Whitespace
    /\ Cardinality({i \in 1..Len(email) : email[i] = "@"}) = 1
    /\ LET at == IndexOf(email, <<"@">>)
       IN  /\ at > 1
           /\ \E d \in (at + 2)..(Len(email) - 1) : email[d] = "."

\* A slot that handles nothing.
Idle ==
    [kind |-> "none", pc |-> "done", url |-> <<>>, email |-> <<>>, ip |-> <<>>, token |-> <<>>,
     guide |-> <<>>, at |-> 0, data |-> KvAbsent, limit |-> "none", status |-> 0,
     mailed |-> FALSE, fetched |-> FALSE]

NoRow == [present |-> FALSE, unsubscribed |-> 0, unsubscribed_at |-> 0]

\* No function is deployed while a page, the normalizer or the pipeline runs.
NoServer ==
    /\ env = [KV |-> FALSE, DB |-> FALSE, bucket |-> FALSE]
    /\ clock = 0
    /\ KV = [k \in KvKeys |-> KvAbsent]
    /\ DB = [e \in Emails |-> NoRow]
    /\ reqs = <<>>
    /\ passed = {}
    /\ outbox = {}
    /\ crafted = {}

\* No pipeline runs while a page is loaded or the normalizer exercised.
NoDeploy ==
    /\ dPc = "off" /\ dFs = [index |-> FALSE, renamed |-> FALSE, root404 |-> FALSE, sitemap |-> FALSE]
    /\ dPreFailed = FALSE /\ dStarted = <<>> /\ dFinished = 0 /\ dFailed = 0
    /\ dSummary = FALSE /\ dExit = -1

Init ==
    /\ NoDeploy
    /\ NoServer
    /\ productKey \in ProductKeys
    /\ href \in PageUrls(productKey)
    /\ ua \in UserAgents
    /\ pc = "loading"
    /\ variant = Undefined
    /\ fetches = 0
    /\ amazonLinks = Undefined
    /\ targetKey = Undefined
    /\ targetLink = Undefined
    /\ deeplink = Undefined
    /\ branch = "none"
    /\ navs = <<>>
    /\ timers = {}
    /\ timersSet = 0
    /\ overlay = "none"
    /\ iframes = <<>>
    /\ taps = 0
    /\ now = 0
    /\ page = "visible"
    /\ wasHidden = FALSE
    /\ stalled = FALSE
    /\ nUrl = Undefined /\ nParams = 0 /\ nFallback = Undefined
    /\ nResult = Undefined /\ nPc = "off"

\* productPageUrl without the trailing slash.
productPageUrl_NoTrailingSlash(key) == IF key = S_home THEN S_slash ELSE S_slash \o key

\* The canonical page of a product (lines 399-408).
productPageUrl(key) == IF key = S_home THEN S_slash ELSE S_slash \o key \o S_slash

\* Lines 372-415: from the start of the handler to the await of the fetch.
DOMContentLoaded ==
    /\ pc = "loading"
    /\ variant' = parseVariant(productKey, href)
    /\ IF skipRedirect(href)
       THEN /\ pc' = "done"
            /\ UNCHANGED <<navs, fetches>>
       ELSE IF ~Truthy(variant')
       THEN /\ pc' = "done"
            /\ navs' = IF productKey = S_amzn THEN navs
                       ELSE Append(navs, Replace(productPageUrl(productKey)))
            /\ UNCHANGED fetches
       ELSE /\ pc' = "fetching"
            /\ fetches' = fetches + 1
            /\ UNCHANGED navs
    /\ UNCHANGED <<productKey, href, ua, amazonLinks, targetKey, targetLink, deeplink,
                   branch, timers, timersSet, overlay, iframes, taps, now, page,
                   wasHidden, stalled,
                   normVars, deployVars, srvVars>>

\* FetchFailed that logs the error and returns without navigating.
FetchFailed_NoRedirect ==
    /\ pc = "fetching"
    /\ pc' = "done"
    /\ UNCHANGED <<productKey, href, ua, variant, fetches, amazonLinks, targetKey,
                   targetLink, deeplink, branch, navs, timers, timersSet, overlay,
                   iframes, taps, now, page, wasHidden, stalled,
                   normVars, deployVars, srvVars>>

\* FetchFailed that fetches /amazonLinks.json again when the fetch fails.
FetchFailed_Retry ==
    /\ pc = "fetching"
    /\ fetches' = fetches + 1
    /\ UNCHANGED <<productKey, href, ua, pc, variant, amazonLinks, targetKey,
                   targetLink, deeplink, branch, navs, timers, timersSet, overlay,
                   iframes, taps, now, page, wasHidden, stalled,
                   normVars, deployVars, srvVars>>

\* Lines 417-421: fetch() rejects, or res.json() rejects on an unparsable body.
FetchFailed ==
    /\ pc = "fetching"
    /\ pc' = "done"
    /\ navs' = Append(navs, Replace(S_slash))
    /\ UNCHANGED <<productKey, href, ua, variant, fetches, amazonLinks, targetKey,
                   targetLink, deeplink, branch, timers, timersSet, overlay, iframes,
                   taps, now, page, wasHidden, stalled,
                   normVars, deployVars, srvVars>>

\* branchOf testing for a Chromium browser before testing for a mobile one.
branchOf_ChromiumFirst(u) ==
    IF \E w \in ChromiumWords : Includes(u, w) THEN "androidChromium"
    ELSE IF ~isMobile(u) THEN "desktop"
    ELSE "otherMobile"

\* branchOf testing for iOS before it tests for Android.
branchOf_IosFirst(u) ==
    IF ~isMobile(u) THEN "desktop"
    ELSE IF isIOS(u)
         THEN IF isAppBrowser(u) THEN "iosApp" ELSE "iosStandalone"
    ELSE IF isAndroid(u)
         THEN IF isAppBrowser(u) THEN "androidApp"
              ELSE IF isChromiumAndroid(u) THEN "androidChromium"
              ELSE "androidOther"
    ELSE "otherMobile"

\* The branch the user agent selects (lines 449-522).
branchOf(u) ==
    IF ~isMobile(u) THEN "desktop"
    ELSE IF isAndroid(u)
         THEN IF isAppBrowser(u) THEN "androidApp"
              ELSE IF isChromiumAndroid(u) THEN "androidChromium"
              ELSE "androidOther"
    ELSE IF isIOS(u)
         THEN IF isAppBrowser(u) THEN "iosApp" ELSE "iosStandalone"
    ELSE "otherMobile"

\* deeplinkOf with the iOS standalone branch reading the Android deep link.
deeplinkOf_AndroidOnIos(b, productLinks, key) ==
    IF b \in {"androidApp", "androidChromium", "iosStandalone"}
    THEN Get(productLinks, Str(key) \o S_deeplinkAndroid)
    ELSE Undefined

\* The deep link a branch reads from the table (lines 465, 474, 505).
deeplinkOf(b, productLinks, key) ==
    IF b \in {"androidApp", "androidChromium"}
    THEN Get(productLinks, Str(key) \o S_deeplinkAndroid)
    ELSE IF b = "iosStandalone" THEN Get(productLinks, Str(key) \o S_deeplinkIos)
    ELSE Undefined

\* firstNavs with the Android in-app branch navigating to the deep link as
\* stored, not to the normalized one.
firstNavs_RawDeeplink(b, dl, link) ==
    CASE b = "desktop" -> <<Replace(link)>>
      [] b = "androidApp" -> <<Assign(dl)>>
      [] b = "androidChromium" -> <<Assign(dl)>>
      [] b = "androidOther" -> <<Assign(link)>>
      [] b = "iosApp" -> <<Assign(S_xSafari \o link)>>
      [] b = "iosStandalone" -> <<>>
      [] b = "otherMobile" -> <<Replace(link)>>

\* The navigation a branch issues before it returns.
firstNavs(b, dl, link) ==
    CASE b = "desktop" -> <<Replace(link)>>
      [] b = "androidApp" -> <<Assign(normalizeIntentLink(dl, link))>>
      [] b = "androidChromium" -> <<Assign(dl)>>
      [] b = "androidOther" -> <<Assign(link)>>
      [] b = "iosApp" -> <<Assign(S_xSafari \o link)>>
      [] b = "iosStandalone" -> <<>>
      [] b = "otherMobile" -> <<Replace(link)>>

\* The timer a branch schedules before it returns.
firstTimers(b) ==
    CASE b \in {"androidApp", "iosApp"} -> {[kind |-> "root", due |-> RootTimerMs, how |-> "replace"]}
      [] b = "androidChromium" -> {[kind |-> "fallback", due |-> FallbackTimerMs, how |-> "replace"]}
      [] b = "iosStandalone" -> {[kind |-> "fallback", due |-> FallbackTimerMs, how |-> "href"]}
      [] OTHER -> {}

\* Lines 416-522: the response parses; the product is looked up, the target
\* resolved and the branch of the user agent run to its return.
FetchOk ==
    /\ pc = "fetching"
    /\ \E m \in VariantMaps :
        LET table == LinkTable(m)
            found == productKey \in DOMAIN table
            productLinks == table[productKey]
            key == resolveTargetKey(productLinks, variant)
            link == resolveTargetLink(productLinks, key)
            b == branchOf(ua)
            dl == deeplinkOf(b, productLinks, key)
        IN  /\ amazonLinks' = table
            /\ pc' = "done"
            /\ IF ~found
               THEN /\ navs' = Append(navs, Replace(S_slash))
                    /\ UNCHANGED <<targetKey, targetLink, deeplink, branch, timers,
                                   timersSet, overlay>>
               ELSE /\ targetKey' = key
                    /\ targetLink' = link
                    /\ deeplink' = dl
                    /\ branch' = b
                    /\ navs' = navs \o firstNavs(b, dl, link)
                    /\ timers' = firstTimers(b)
                    /\ timersSet' = timersSet + Cardinality(firstTimers(b))
                    /\ overlay' = IF b \in {"androidChromium", "iosStandalone"}
                                  THEN "shown" ELSE "none"
    /\ UNCHANGED <<productKey, href, ua, variant, fetches, iframes, taps, now, page,
                   wasHidden, stalled,
                   normVars, deployVars, srvVars>>

\* A click on the overlay (lines 189-206, 230-247): the deep link is loaded in
\* a hidden iframe and the fallback is scheduled.
Tap ==
    /\ pc = "done" /\ page = "visible" /\ overlay = "shown"
    /\ taps < MaxTaps
    /\ taps' = taps + 1
    /\ iframes' = Append(iframes, deeplink)
    /\ timers' = timers \cup
           {[kind |-> "tap", how |-> "replace", tap |-> taps + 1,
             due |-> now + (IF branch = "androidChromium" THEN AndroidTapDelayMs
                            ELSE IosTapDelayMs)]}
    /\ timersSet' = timersSet + 1
    /\ UNCHANGED <<productKey, href, ua, pc, variant, fetches, amazonLinks, targetKey,
                   targetLink, deeplink, branch, navs, overlay, now, page, wasHidden,
                   stalled, normVars, deployVars, srvVars>>

\* timerNavs comparing the elapsed time with the timer's own delay.
timerNavs_LimitIsDelay(t) ==
    CASE t.kind = "root" -> <<Replace(S_siteRoot)>>
      [] t.kind = "fallback" ->
            IF now < FallbackTimerMs THEN <<[how |-> t.how, to |-> targetLink]>> ELSE <<>>
      [] t.kind = "tap" -> <<Replace(targetLink)>>

\* timerNavs without the test of the elapsed time.
timerNavs_NoElapsedTest(t) ==
    CASE t.kind = "root" -> <<Replace(S_siteRoot)>>
      [] t.kind = "fallback" -> <<[how |-> t.how, to |-> targetLink]>>
      [] t.kind = "tap" -> <<Replace(targetLink)>>

\* What a timer callback does when it runs.
timerNavs(t) ==
    CASE t.kind = "root" -> <<Replace(S_siteRoot)>>
      [] t.kind = "fallback" ->
            IF now < ElapsedLimitMs THEN <<[how |-> t.how, to |-> targetLink]>> ELSE <<>>
      [] t.kind = "tap" -> <<Replace(targetLink)>>

\* A due timer runs; the page must be present and in the foreground.
TimerFire ==
    /\ pc = "done" /\ page = "visible"
    /\ \E t \in timers :
        /\ t.due <= now
        /\ timers' = timers \ {t}
        /\ navs' = navs \o timerNavs(t)
        /\ overlay' = IF t.kind = "tap" THEN "removed" ELSE overlay
    /\ UNCHANGED <<productKey, href, ua, pc, variant, fetches, amazonLinks, targetKey,
                   targetLink, deeplink, branch, timersSet, iframes, taps, now, page,
                   wasHidden, stalled,
                   normVars, deployVars, srvVars>>

\* The instants at which something can change: the due times and the limit
\* the fallback callback compares the elapsed time with.
Instants == {t.due : t \in timers} \cup {ElapsedLimitMs}

\* Time passes to the next instant; in the foreground a due timer runs first.
Tick ==
    /\ pc = "done" /\ page # "gone" /\ timers # {}
    /\ page = "visible" => \A t \in timers : t.due > now
    /\ \E i \in Instants :
        /\ i > now
        /\ \A j \in Instants : j > now => i <= j
        /\ now' = i
    /\ UNCHANGED <<productKey, href, ua, pc, variant, fetches, amazonLinks, targetKey,
                   targetLink, deeplink, branch, navs, timers, timersSet, overlay,
                   iframes, taps, page, wasHidden, stalled,
                   normVars, deployVars, srvVars>>

\* setTimeout gives the least delay, not the exact one: the event loop of a
\* foreground page is busy when a callback falls due (once per page load),
\* and the callback is still waiting at the next instant.
Stall ==
    /\ pc = "done" /\ page = "visible" /\ ~wasHidden /\ ~stalled
    /\ \E t \in timers : t.due <= now
    /\ \E i \in Instants :
        /\ i > now
        /\ \A j \in Instants : j > now => i <= j
        /\ now' = i
    /\ stalled' = TRUE
    /\ UNCHANGED <<productKey, href, ua, pc, variant, fetches, amazonLinks, targetKey,
                   targetLink, deeplink, branch, navs, timers, timersSet, overlay,
                   iframes, taps, page, wasHidden, normVars, deployVars, srvVars>>

\* The user (or an opened app) puts the page in the background, once: timers
\* are held until it is shown again.
Hide ==
    /\ pc = "done" /\ page = "visible" /\ timers # {} /\ ~wasHidden
    /\ page' = "hidden"
    /\ wasHidden' = TRUE
    /\ UNCHANGED <<productKey, href, ua, pc, variant, fetches, amazonLinks, targetKey,
                   targetLink, deeplink, branch, navs, timers, timersSet, overlay,
                   iframes, taps, now, stalled,
                   normVars, deployVars, srvVars>>

Show ==
    /\ page = "hidden"
    /\ page' = "visible"
    /\ UNCHANGED <<productKey, href, ua, pc, variant, fetches, amazonLinks, targetKey,
                   targetLink, deeplink, branch, navs, timers, timersSet, overlay,
                   iframes, taps, now, wasHidden, stalled,
                   normVars, deployVars, srvVars>>

\* A navigation that was issued completes: the page is torn down, its pending
\* callbacks with it, and no further script runs.
Unload ==
    /\ pc = "done" /\ page # "gone" /\ navs # <<>>
    /\ page' = "gone"
    /\ timers' = {}
    /\ UNCHANGED <<productKey, href, ua, pc, variant, fetches, amazonLinks, targetKey,
                   targetLink, deeplink, branch, navs, timersSet, overlay,
                   iframes, taps, now, wasHidden, stalled,
                   normVars, deployVars, srvVars>>

Next ==
    \/ DOMContentLoaded
    \/ FetchFailed
    \/ FetchOk
    \/ Tap
    \/ TimerFire
    \/ Tick
    \/ Stall
    \/ Hide
    \/ Show
    \/ Unload

Spec == Init /\ [][Next]_vars

\* The browser runs a due timer of a foreground page and time does not stop.
FairSpec == Spec /\ WF_vars(TimerFire) /\ WF_vars(Tick)

\* ------------------------------------------------------------------------
\* The normalizer applied to bounded inputs
\* ------------------------------------------------------------------------
S_pathFoo ==
    <<"f", "o", "o">>

S_pathHost ==
    <<"a", ".", "c", "o", "/", "d", "/", "x">>

S_seedScheme ==
    <<"s", "c", "h", "e", "m", "e", "=", "h", "t", "t", "p">>

S_seedPackageScheme ==
    <<"p", "a", "c", "k", "a", "g", "e", "=", "c", "o", "m", ".", "b", "a", "r", ";", "s", "c", "h", "e", "m", "e", "=", "h", "t", "t", "p">>

P_package ==
    <<"p", "a", "c", "k", "a", "g", "e", "=", "c", "o", "m", ".", "b", "a", "r">>

P_component ==
    <<"c", "o", "m", "p", "o", "n", "e", "n", "t", "=", "x">>

P_scheme ==
    <<"s", "c", "h", "e", "m", "e", "=", "h", "t", "t", "p">>

P_endpoint ==
    <<"e", "n", "d", "p", "o", "i", "n", "t", "=", "1">>

P_fallbackOk ==
    <<"S", ".", "b", "r", "o", "w", "s", "e", "r", "_", "f", "a", "l", "l", "b", "a", "c", "k", "_", "u", "r", "l", "=", "h", "t", "t", "p", "s", "%", "3", "A", "%", "2", "F", "%", "2", "F", "a", ".", "c", "o", "%", "2", "F", "d">>

P_fallbackBad ==
    <<"S", ".", "b", "r", "o", "w", "s", "e", "r", "_", "f", "a", "l", "l", "b", "a", "c", "k", "_", "u", "r", "l", "=", "%">>

S_appUrl ==
    <<"c", "o", "m", ".", "e", "x", "a", "m", "p", "l", "e", ".", "a", "p", "p", ":", "/", "/", "p", "a", "t", "h", "/", "1", "2", "3">>

S_appUrlSemis ==
    <<"c", "o", "m", ".", "a", ":", "/", "/", "p", ";", ";", "q">>

S_appNoSep ==
    <<"c", "o", "m", ".", "a">>

S_webUrl ==
    <<"h", "t", "t", "p", "s", ":", "/", "/", "a", ".", "c", "o", "/", "x">>

S_marketUrl ==
    <<"m", "a", "r", "k", "e", "t", ":", "/", "/", "x">>

P_fallbackInvalid ==
    <<"S", ".", "b", "r", "o", "w", "s", "e", "r", "_", "f", "a", "l", "l", "b", "a", "c", "k", "_", "u", "r", "l", "=", "a", "%", "2", "0", "b">>

F_https ==
    <<"h", "t", "t", "p", "s", ":", "/", "/", "e", "x", "a", "m", "p", "l", "e", ".", "c", "o", "m", "/", "x">>

F_http ==
    <<"h", "t", "t", "p", ":", "/", "/", "e", ".", "c", "o", "m">>

\* The number of parameters appended to an intent:// input.
MaxParams == 2

NormPool ==
    {P_package, P_component, P_scheme, S_end, P_endpoint, P_fallbackOk, P_fallbackBad,
     P_fallbackInvalid, <<>>}

IntentBases ==
    {S_intent \o p \o S_HashIntentSemi \o seed :
        p \in {S_pathFoo, S_pathHost},
        seed \in {<<>>, S_seedScheme, S_seedPackageScheme}}

OtherUrls ==
    {S_appUrl, S_appUrlSemis, S_appNoSep, S_webUrl, S_marketUrl, <<>>, Undefined}

Fallbacks == {F_https, F_http, S_slash, Undefined}

\* No page is loaded while the normalizer is exercised on its own.
NoPage ==
    /\ productKey = <<>> /\ href = Undefined /\ ua = <<>> /\ pc = "off"
    /\ variant = Undefined /\ fetches = 0 /\ amazonLinks = Undefined
    /\ targetKey = Undefined /\ targetLink = Undefined /\ deeplink = Undefined
    /\ branch = "none" /\ navs = <<>> /\ timers = {} /\ timersSet = 0
    /\ overlay = "none" /\ iframes = <<>> /\ taps = 0 /\ now = 0
    /\ page = "visible" /\ wasHidden = FALSE /\ stalled = FALSE

NormInit ==
    /\ NoPage
    /\ NoDeploy
    /\ NoServer
    /\ nPc = "build"
    /\ nUrl \in IntentBases \cup OtherUrls
    /\ nParams = 0
    /\ nFallback \in Fallbacks
    /\ nResult = Undefined

\* One more ";"-separated parameter on an intent:// input.
AppendParam ==
    /\ nPc = "build"
    /\ StartsWith(nUrl, S_intent)
    /\ nParams < MaxParams
    /\ \E p \in NormPool :
          nUrl' = IF EndsWith(nUrl, S_HashIntentSemi) THEN nUrl \o p
                  ELSE nUrl \o S_semi \o p
    /\ nParams' = nParams + 1
    /\ UNCHANGED <<nFallback, nResult, nPc, dispVars, deployVars, srvVars>>

Normalize ==
    /\ nPc = "build"
    /\ nResult' = normalizeIntentLink(nUrl, nFallback)
    /\ nPc' = "done"
    /\ UNCHANGED <<nUrl, nParams, nFallback, dispVars, deployVars, srvVars>>

NormNext == AppendParam \/ Normalize

SpecNorm == NormInit /\ [][NormNext]_vars

\* ------------------------------------------------------------------------
\* The deployment pipeline (deploy-static-site.js, lines 32-168)
\* ------------------------------------------------------------------------
\* The scripts of the seven runScript calls, in the order of the calls.
Scripts ==
    <<"generate-affiliate-links.js", "create-missing-sizes.js", "make-images-responsive.js",
      "remove-render-blocking-css.js", "update-css.js", "defer-ponyfill.js", "insertheaders.js">>

DeployInit ==
    /\ NoPage
    /\ NoServer
    /\ nUrl = Undefined /\ nParams = 0 /\ nFallback = Undefined
    /\ nResult = Undefined /\ nPc = "off"
    /\ dPc = "rename"
    /\ dFs \in [index : BOOLEAN, renamed : BOOLEAN, root404 : BOOLEAN, sitemap : BOOLEAN]
    /\ dPreFailed = FALSE /\ dStarted = <<>> /\ dFinished = 0 /\ dFailed = 0
    /\ dSummary = FALSE /\ dExit = -1

\* Lines 70-73: fourohfour/index.html is renamed to fourohfour/404.html.
RenameIndex ==
    /\ dPc = "rename"
    /\ dFs' = IF dFs.index THEN [dFs EXCEPT !.index = FALSE, !.renamed = TRUE] ELSE dFs
    /\ dPc' = "move"
    /\ UNCHANGED <<dPreFailed, dStarted, dFinished, dFailed, dSummary, dExit, dispVars, normVars, srvVars>>

\* Lines 76-79: fourohfour/404.html is moved to /404.html.
MoveToRoot ==
    /\ dPc = "move"
    /\ dFs' = IF dFs.renamed THEN [dFs EXCEPT !.renamed = FALSE, !.root404 = TRUE] ELSE dFs
    /\ dPc' = "sitemap"
    /\ UNCHANGED <<dPreFailed, dStarted, dFinished, dFailed, dSummary, dExit, dispVars, normVars, srvVars>>

\* Lines 82-96: the fourohfour entry is removed from page-sitemap.xml.
UpdateSitemap ==
    /\ dPc = "sitemap"
    /\ dPc' = "scripts"
    /\ UNCHANGED <<dFs, dPreFailed, dStarted, dFinished, dFailed, dSummary, dExit, dispVars, normVars, srvVars>>

\* Lines 97-101: a file operation of the pre-step throws; the error is logged
\* and the deployment continues with step 1.
PreStepError ==
    /\ \/ dPc = "rename" /\ dFs.index
       \/ dPc = "move" /\ dFs.renamed
       \/ dPc = "sitemap" /\ dFs.sitemap
    /\ dPreFailed' = TRUE
    /\ dPc' = "scripts"
    /\ UNCHANGED <<dFs, dStarted, dFinished, dFailed, dSummary, dExit, dispVars, normVars, srvVars>>

\* Lines 33-39: runScript starts the next script with execSync.
StartScript ==
    /\ dPc = "scripts"
    /\ dFinished < Len(Scripts)
    /\ dStarted' = Append(dStarted, Scripts[dFinished + 1])
    /\ dPc' = "running"
    /\ UNCHANGED <<dFs, dPreFailed, dFinished, dFailed, dSummary, dExit, dispVars, normVars, srvVars>>

\* Line 43: the script exited with status 0 and execSync returned.
ScriptExitsOk ==
    /\ dPc = "running"
    /\ dFinished' = dFinished + 1
    /\ dPc' = "scripts"
    /\ UNCHANGED <<dFs, dPreFailed, dStarted, dFailed, dSummary, dExit, dispVars, normVars, srvVars>>

\* ScriptExitsError that logs the failure and returns to the caller.
ScriptExitsError_Continue ==
    /\ dPc = "running"
    /\ dFailed' = Len(dStarted)
    /\ dFinished' = dFinished + 1
    /\ dPc' = "scripts"
    /\ UNCHANGED <<dFs, dPreFailed, dStarted, dSummary, dExit, dispVars, normVars, srvVars>>

\* Lines 44-49: the script failed, execSync threw and the process exits with 1.
ScriptExitsError ==
    /\ dPc = "running"
    /\ dFailed' = Len(dStarted)
    /\ dExit' = 1
    /\ dPc' = "exited"
    /\ UNCHANGED <<dFs, dPreFailed, dStarted, dFinished, dSummary, dispVars, normVars, srvVars>>

\* Lines 145-160: all runScript calls returned; the summary is logged.
Complete ==
    /\ dPc = "scripts"
    /\ dFinished = Len(Scripts)
    /\ dSummary' = TRUE
    /\ dPc' = "summary"
    /\ UNCHANGED <<dFs, dPreFailed, dStarted, dFinished, dFailed, dExit, dispVars, normVars, srvVars>>

\* deploy() resolved: the process ends with status 0.
ProcessEnds ==
    /\ dPc = "summary"
    /\ dExit' = 0
    /\ dPc' = "exited"
    /\ UNCHANGED <<dFs, dPreFailed, dStarted, dFinished, dFailed, dSummary, dispVars, normVars, srvVars>>

DeployNext ==
    \/ RenameIndex
    \/ MoveToRoot
    \/ UpdateSitemap
    \/ PreStepError
    \/ StartScript
    \/ ScriptExitsOk
    \/ ScriptExitsError
    \/ Complete
    \/ ProcessEnds

SpecDeploy == DeployInit /\ [][DeployNext]_vars

\* ------------------------------------------------------------------------
\* The page and the normalizer side by side
\* ------------------------------------------------------------------------
BothInit == Init \/ NormInit

BothNext == Next \/ NormNext

SpecBoth == BothInit /\ [][BothNext]_vars

\* ------------------------------------------------------------------------
\* Claims about the dispatcher (checked under Spec, C6_Fallback under FairSpec)
\* ------------------------------------------------------------------------
\* The handler got as far as resolving the target and running a branch.
Dispatched == pc = "done" /\ branch # "none"

productLinksNow == amazonLinks[productKey]

\* The keys of the product's VariantMap without the deep-link keys, in order.
PlainKeys ==
    LET plain(k) == ~EndsWith(k, S_deeplinkIos) /\ ~EndsWith(k, S_deeplinkAndroid)
    IN  SelectSeq(ObjectKeys(productLinksNow), plain)

MatchesPlainKey == \E i \in 1..Len(PlainKeys) : ToLowerCase(PlainKeys[i]) = ToLowerCase(variant)

NavTo(to) == \E i \in 1..Len(navs) : navs[i].to = to

NoTimerNoOverlay == timersSet = 0 /\ timers = {} /\ overlay = "none" /\ iframes = <<>>

\* C1 as stated: a variant that equals a filtered key up to letter case
\* resolves targetLink to the web URL stored under that stored key.
C1_AsStated ==
    Dispatched =>
        \A i \in 1..Len(PlainKeys) :
            ToLowerCase(PlainKeys[i]) = ToLowerCase(variant)
                => targetLink = Get(productLinksNow, PlainKeys[i])

\* C2: a non-empty variant that matches no filtered key resolves to the first
\* key of the filtered key list and to that key's web URL.
C2_FirstKeyFallback ==
    (Dispatched /\ variant # <<>> /\ ~MatchesPlainKey /\ PlainKeys # <<>>) =>
        /\ targetKey = PlainKeys[1]
        /\ targetLink = Get(productLinksNow, PlainKeys[1])

\* The unknown variant zz fell back to uk, stored after a deep-link key.
C2_Witness ==
    /\ Dispatched /\ variant = V_zz
    /\ ObjectKeys(productLinksNow) = <<K_usIos, K_uk, K_us>>
    /\ targetKey = K_uk /\ targetLink = U_uk

\* C3: with skipredirect=true nothing is ever issued: no navigation, no
\* fetch, no timer, no overlay.
C3_SkipRedirectInert ==
    (pc # "off" /\ href.skipParam = S_true) =>
        navs = <<>> /\ fetches = 0 /\ NoTimerNoOverlay

\* The handler returned on a mobile page with a variant and skipredirect=true.
C3_Witness ==
    /\ pc = "done" /\ href.skipParam = S_true
    /\ variant = K_us /\ ua = UA_androidChrome /\ productKey = S_amzn

IsDeepLinkUrl(u) ==
    \/ StartsWith(u, S_intent)
    \/ StartsWith(u, S_xSafari)
    \/ Includes(u, S_schemeSep) /\ ~HasHttpSchemeI(u)

\* C4: on a desktop user agent no deep link is navigated to, no iframe,
\* overlay or timer is created, and the branch issues one navigation, to
\* targetLink.
C4_DesktopNoDeepLink ==
    (pc # "off" /\ ua = UA_desktop) =>
        /\ NoTimerNoOverlay
        /\ \A i \in 1..Len(navs) : ~IsDeepLinkUrl(navs[i].to)
        /\ Dispatched => navs = <<Replace(targetLink)>>

\* The desktop branch ran on a VariantMap holding both deep links of us.
C4_Witness ==
    /\ Dispatched /\ ua = UA_desktop /\ targetKey = K_us
    /\ Get(productLinksNow, K_usIos) = U_usIos
    /\ Get(productLinksNow, K_usAndroid) = U_usAndroid
    /\ navs = <<Replace(U_us)>>

FetchFailure == pc = "done" /\ fetches = 1 /\ amazonLinks = Undefined

ProductMissing == pc = "done" /\ amazonLinks # Undefined /\ productKey \notin DOMAIN amazonLinks

\* C5: a failed fetch or a product missing from the table gives exactly one
\* navigation, to "/", and neither a timer nor an overlay.
C5_ErrorToRoot ==
    (FetchFailure \/ ProductMissing) => navs = <<Replace(S_slash)>> /\ NoTimerNoOverlay

\* The fetch failed on a mobile page and the page was then left.
C5_Witness == FetchFailure /\ ua = UA_androidInstagram /\ page = "gone"

\* The chosen variant has a web URL and no deep-link entry.
NoDeepLinkEntries ==
    /\ Dispatched
    /\ Truthy(Get(productLinksNow, targetKey))
    /\ Get(productLinksNow, Str(targetKey) \o S_deeplinkAndroid) = Undefined
    /\ Get(productLinksNow, Str(targetKey) \o S_deeplinkIos) = Undefined

\* Every timer has run, on time, on a page that stayed in the foreground,
\* untapped.
TimersRanInForeground == page = "visible" /\ timers = {} /\ ~wasHidden /\ ~stalled /\ taps = 0

LeftOrTapped == page # "visible" \/ wasHidden \/ stalled \/ taps > 0

C9_EmptyVariant ==
    (pc = "done" /\ href.skipParam # S_true /\ variant = <<>>) =>
        /\ fetches = 0
        /\ NoTimerNoOverlay
        /\ navs = IF productKey = S_home THEN <<Replace(S_slash)>>
                  ELSE IF productKey = S_amzn THEN <<>>
                  ELSE <<Replace(S_slash \o productKey \o S_slash)>>

\* The product page of product/a was opened without a variant.
C9_Witness ==
    /\ pc = "done" /\ productKey = S_productA /\ variant = <<>>
    /\ href.hash = H_variantUk
    /\ navs = <<Replace(S_slash \o S_productA \o S_slash)>>

IntentPartOf(u) ==
    LET sp == Split(u, S_HashIntentSemi) IN IF Len(sp) >= 2 THEN sp[2] ELSE <<>>

ResultParams == Split(IntentPartOf(nResult), S_semi)

IntentInput ==
    /\ nPc = "done"
    /\ nFallback # Undefined
    /\ StartsWith(nUrl, S_intent)
    /\ IntentPartOf(nUrl) # <<>>

InjectedFallback == S_fallbackParam \o encodeURIComponent(httpsFallback(nFallback))

NoPackageParam == \A i \in 1..Len(ResultParams) : ~StartsWith(ResultParams[i], S_package)

CarriesFallback ==
    ~Includes(nUrl, S_fallbackParam)
        => \E i \in 1..Len(ResultParams) : ResultParams[i] = InjectedFallback

SingleTrailingEnd ==
    /\ ResultParams[Len(ResultParams)] = S_end
    /\ \A i \in 1..(Len(ResultParams) - 1) : ResultParams[i] # S_end

NoSemiRun == ~Includes(nResult, <<";", ";">>)

\* C7 as stated: every intent:// input with a non-empty "#Intent;" part comes
\* back as an intent:// URL without package=, with scheme=https, with an
\* S.browser_fallback_url derived from the fallback when the input had none,
\* with exactly one trailing ";end" and with no run of ";".
C7_AsStated ==
    IntentInput =>
        /\ StartsWith(nResult, S_intent)
        /\ NoPackageParam
        /\ \E i \in 1..Len(ResultParams) : ResultParams[i] = S_schemeHttps
        /\ CarriesFallback
        /\ SingleTrailingEnd
        /\ NoSemiRun

\* The existing S.browser_fallback_url value of the input can be decoded.
DecodableInput ==
    existingFallbackMatch(nUrl) # Null => decodeURIComponent(existingFallbackMatch(nUrl)) # URIError

InputParams == Split(IntentPartOf(nUrl), S_semi)

\* C7, amended: an input whose existing S.browser_fallback_url cannot be
\* decoded is returned unchanged; every other intent:// input with a
\* non-empty "#Intent;" part comes back as an intent:// URL without package=,
\* with scheme=https exactly when the input had a scheme= parameter, with an
\* S.browser_fallback_url derived from the fallback when the input had none,
\* with exactly one trailing ";end" and with no run of ";".
C7_Normalized ==
    IntentInput =>
        IF DecodableInput
        THEN /\ StartsWith(nResult, S_intent)
             /\ NoPackageParam
             /\ (\E i \in 1..Len(ResultParams) : StartsWith(ResultParams[i], S_scheme))
                    <=> (\E i \in 1..Len(InputParams) : StartsWith(InputParams[i], S_scheme))
             /\ \A i \in 1..Len(ResultParams) :
                    StartsWith(ResultParams[i], S_scheme) => ResultParams[i] = S_schemeHttps
             /\ CarriesFallback
             /\ SingleTrailingEnd
             /\ NoSemiRun
        ELSE nResult = nUrl

\* An input with package=, scheme=http and no fallback parameter was rewritten.
C7_Witness ==
    /\ IntentInput
    /\ \E i \in 1..Len(InputParams) : StartsWith(InputParams[i], S_package)
    /\ \E i \in 1..Len(InputParams) : InputParams[i] = P_scheme
    /\ ~Includes(nUrl, S_fallbackParam)
    /\ nResult # nUrl

\* A com.<app>://<path> input with an https:// fallback.
AppInput ==
    /\ nPc = "done"
    /\ nUrl \in {S_appUrl, S_appUrlSemis}
    /\ StartsWith(nFallback, S_httpsScheme)

\* <path>: what follows the first "://" of the input.
AppPath == Drop(nUrl, IndexOf(nUrl, S_schemeSep) + Len(S_schemeSep) - 1)

AppExpected == S_intent \o AppPath \o S_intentTail \o encodeURIComponent(nFallback) \o S_semiEnd

\* C8 as stated: the result is exactly intent://<path>#Intent;scheme=https;
\* action=android.intent.action.VIEW;S.browser_fallback_url=<encoded F>;end.
C8_AsStated == AppInput => nResult = AppExpected

\* C8, amended: the result is that string with every run of two or more ";"
\* collapsed into one; it is exactly that string when <path> holds no such run.
C8_AppIntent ==
    AppInput =>
        /\ nResult = CollapseSemis(AppExpected)
        /\ ~Includes(AppPath, <<";", ";">>) => nResult = AppExpected
        /\ NoSemiRun

\* The spec's example input was normalized.
C8_Witness == AppInput /\ nUrl = S_appUrl /\ nResult = AppExpected

\* Neither an intent:// URL nor of the form com.<app>://...
OtherInput ==
    /\ nPc = "done"
    /\ ~StartsWith(nUrl, S_intent)
    /\ ~(StartsWith(nUrl, S_comDot) /\ Includes(nUrl, S_schemeSep))

\* C11 as stated: a url that neither starts with intent:// nor has the form
\* com.<app>://... is returned unchanged, for every fallback.
C11_AsStated == OtherInput => nResult = nUrl

\* The url is rewritten in one of the two branches and has a "#Intent;" part
\* where the intent:// branch needs one.
Repaired(url) ==
    /\ Truthy(url)
    /\ \/ StartsWith(url, S_intent) /\ IntentPartOf(url) # <<>>
       \/ ~StartsWith(url, S_intent) /\ StartsWith(url, S_comDot)

\* A step of the repair raises an exception: an existing S.browser_fallback_url
\* that cannot be decoded, or a method called on an undefined fallback.
RepairThrows(url, fallback) ==
    /\ Repaired(url)
    /\ IF StartsWith(url, S_intent)
       THEN \/ /\ existingFallbackMatch(url) # Null
               /\ decodeURIComponent(existingFallbackMatch(url)) = URIError
            \/ fallback = Undefined
                  /\ (existingFallbackMatch(url) = Null \/ ~detectTldInIntent(url))
       ELSE fallback = Undefined

\* The existing S.browser_fallback_url decodes to something new URL() rejects.
UnparsableExisting(url) ==
    /\ Repaired(url) /\ StartsWith(url, S_intent)
    /\ existingFallbackMatch(url) # Null
    /\ decodeURIComponent(existingFallbackMatch(url)) # URIError
    /\ ~isValidUrl(normalizeFallbackUrl(decodeURIComponent(existingFallbackMatch(url))))

\* The Android in-app branch navigated to `to` and set its one timer.
InAppContinues(to) ==
    /\ Len(navs) >= 1 /\ navs[1] = Assign(to)
    /\ timersSet = 1
    /\ \A i \in 2..Len(navs) : navs[i] = Replace(S_siteRoot)

C13_PipelineOrder ==
    dPc # "off" =>
        /\ Len(dStarted) <= Len(Scripts)
        /\ dStarted = SubSeq(Scripts, 1, Len(dStarted))
        /\ Len(dStarted) \in {dFinished, dFinished + 1}
        /\ dFailed # 0 =>
              /\ Len(dStarted) = dFailed /\ dFinished = dFailed - 1
              /\ dExit = 1 /\ ~dSummary
        /\ dExit = 1 => dFailed # 0
        /\ dSummary => dFinished = Len(Scripts) /\ dFailed = 0
        /\ dExit = 0 => dSummary

\* The third script failed after the 404 pre-step had failed as well.
C13_Witness ==
    /\ dPc = "exited" /\ dPreFailed
    /\ dFailed = 3 /\ dStarted = SubSeq(Scripts, 1, 3)
    /\ dExit = 1

\* The S.browser_fallback_url parameters of the result.
FallbackParams ==
    LET isFallback(part) == StartsWith(part, S_fallbackParam)
    IN  SelectSeq(ResultParams, isFallback)

FallbackValue(part) == decodeURIComponent(Drop(part, Len(S_fallbackParam)))

\* The input's own S.browser_fallback_url parses as an absolute URL.
ValidExisting ==
    /\ existingFallbackMatch(nUrl) # Null
    /\ isValidUrl(decodeURIComponent(existingFallbackMatch(nUrl)))

\* C14 as stated: for an intent:// input (decodable, with a web URL as the
\* fallback) the result has exactly one S.browser_fallback_url parameter, and
\* its value is a valid absolute URL: the input's own when that one is valid,
\* and otherwise the one derived from the fallback web URL.
C14_AsStated ==
    (IntentInput /\ DecodableInput /\ HasHttpSchemeI(nFallback)) =>
        /\ Len(FallbackParams) = 1
        /\ isValidUrl(FallbackValue(FallbackParams[1]))
        /\ FallbackValue(FallbackParams[1]) =
              IF ValidExisting THEN decodeURIComponent(existingFallbackMatch(nUrl))
              ELSE httpsFallback(nFallback)

\* The input's parameters as the claim keeps them: without package=,
\* component= and the bare token end, scheme= forced to https, in order.
ExpectedParams ==
    LET keep(part) == /\ part # <<>>
                      /\ ~StartsWith(part, S_package)
                      /\ ~StartsWith(part, S_component)
                      /\ part # S_end
        kept == SelectSeq(InputParams, keep)
    IN  [i \in 1..Len(kept) |->
            IF StartsWith(kept[i], S_scheme) THEN S_schemeHttps ELSE kept[i]]

\* What the function appends after the kept parameters.
AppendedParams ==
    <<Drop(S_actionView, 1)>>
        \o (IF existingFallbackMatch(nUrl) = Null THEN <<InjectedFallback>> ELSE <<>>)
        \o <<S_end>>

\* C15 as stated: the parameter list of the result is the input's list
\* without the package= and component= parameters and the bare token end,
\* with every scheme= rewritten to scheme=https and every other parameter
\* (endpoint=... included) unchanged and in its original order.
C15_AsStated ==
    (IntentInput /\ DecodableInput) => ResultParams = ExpectedParams \o AppendedParams

\* What stands between "intent://" and the first "#Intent;" of u.
IntentPathOf(u) == Drop(SubSeq(u, 1, IndexOf(u, S_HashIntentSemi) - 1), Len(S_intent))

\* The path begins with a host of at least two dot-separated labels.
BeginsWithHost ==
    LET path == IntentPathOf(nUrl)
        host == SubSeq(path, 1, PrefixLenNot(path, {"/", "?", "#", "@"}))
        labels == Split(host, S_dot)
    IN  /\ Len(labels) >= 2
        /\ \A i \in 1..Len(labels) : labels[i] # <<>>

\* The host of a web URL: what follows the scheme, up to the first "/".
WebHostOf(u) ==
    LET rest == Drop(u, IndexOf(u, S_schemeSep) + Len(S_schemeSep) - 1)
    IN  SubSeq(rest, 1, PrefixLenNot(rest, {"/", "?", "#", ":"}))

AndroidDeeplinkOfTarget == Get(productLinksNow, Str(targetKey) \o S_deeplinkAndroid)

IosDeeplinkOfTarget == Get(productLinksNow, Str(targetKey) \o S_deeplinkIos)

RootTimer == [kind |-> "root", due |-> RootTimerMs, how |-> "replace"]

\* C17: in the Android in-app branch the first navigation is an assignment
\* of normalizeIntentLink(<Android deep link of targetKey>, targetLink) to
\* location.href; one timer is set, for 2400 ms; when it has run on a page
\* that is still present the browser was sent to the site root, after the
\* deep-link navigation; nothing else is navigated to.
C17_AndroidInApp ==
    branch = "androidApp" =>
        /\ Len(navs) \in {1, 2}
        /\ navs[1] = Assign(normalizeIntentLink(AndroidDeeplinkOfTarget, targetLink))
        /\ Len(navs) = 2 => navs[2] = Replace(S_siteRoot) /\ now >= RootTimerMs /\ timers = {}
        /\ timersSet = 1
        /\ timers \in {{}, {RootTimer}}
        /\ (timers = {} /\ page # "gone") => Len(navs) = 2
        /\ overlay = "none" /\ iframes = <<>>

\* The intent:// deep link of us was normalized and navigated to, and the
\* timer then sent the page, still present, to the site root.
C17_Witness ==
    /\ branch = "androidApp" /\ page = "visible"
    /\ AndroidDeeplinkOfTarget = U_usAndroid
    /\ navs[1].to # U_usAndroid /\ StartsWith(navs[1].to, S_intent)
    /\ Len(navs) = 2

ChromiumTimer == [kind |-> "fallback", due |-> FallbackTimerMs, how |-> "replace"]

\* C18: in the Android Chromium branch the raw Android deep link is assigned
\* to location.href at once and the overlay is shown; one 900 ms timer is
\* set, whose callback navigates to targetLink exactly when it runs less than
\* 1200 ms after the dispatch; a tap loads the deep link in a hidden iframe
\* and sets a 20 ms timer; every navigation after the first one is to
\* targetLink.
C18_AndroidChromium ==
    /\ [](branch = "androidChromium" =>
            /\ Len(navs) >= 1
            /\ navs[1] = Assign(AndroidDeeplinkOfTarget)
            /\ \A i \in 2..Len(navs) : navs[i] = Replace(targetLink)
            /\ overlay \in {"shown", "removed"}
            /\ Len(iframes) = taps
            /\ \A i \in 1..Len(iframes) : iframes[i] = AndroidDeeplinkOfTarget
            /\ timersSet = 1 + taps
            /\ \A t \in timers : t.kind = "fallback" => t = ChromiumTimer)
    /\ [][(branch = "androidChromium" /\ page' = page
                /\ ChromiumTimer \in timers /\ ChromiumTimer \notin timers')
            => navs' = IF now < ElapsedLimitMs THEN Append(navs, Replace(targetLink))
                       ELSE navs]_vars
    /\ [][(branch = "androidChromium" /\ taps' # taps)
            => /\ iframes' = Append(iframes, AndroidDeeplinkOfTarget)
               /\ timers' = timers \cup {[kind |-> "tap", how |-> "replace", tap |-> taps',
                                          due |-> now + AndroidTapDelayMs]}
               /\ navs' = navs]_vars

\* The page was in the background when its 900 ms timer fell due; the timer
\* ran 1200 ms after the dispatch and navigated nowhere.
C18_Witness ==
    /\ branch = "androidChromium" /\ page = "visible" /\ wasHidden
    /\ now >= ElapsedLimitMs /\ timers = {} /\ taps = 0
    /\ navs = <<Assign(U_usAndroid)>>

\* C19 as stated: in the iOS in-app branch the first navigation is to an
\* x-safari-https:// URL formed from targetLink, whatever targetLink was
\* resolved to; one 2400 ms timer is set, whose callback navigates to the
\* site root; the iOS deep link is not used.
C19_AsStated ==
    branch = "iosApp" =>
        /\ Len(navs) \in {1, 2}
        /\ navs[1] = Assign(S_xSafari \o targetLink)
        /\ StartsWith(navs[1].to, S_xSafari \o S_httpsScheme)
        /\ Len(navs) = 2 => navs[2] = Replace(S_siteRoot)
        /\ timersSet = 1
        /\ timers \in {{}, {RootTimer}}
        /\ iframes = <<>> /\ overlay = "none" /\ deeplink = Undefined

SafariTimer == [kind |-> "fallback", due |-> FallbackTimerMs, how |-> "href"]

\* C20: in the iOS standalone branch nothing is attempted with the deep link
\* before a tap; a tap loads the iOS deep link in a hidden iframe and sets a
\* 50 ms timer that navigates to targetLink; the one 900 ms timer navigates
\* to targetLink when it runs less than 1200 ms after the dispatch; every
\* top-level navigation of the branch is to targetLink.
C20_IosStandalone ==
    /\ [](branch = "iosStandalone" =>
            /\ \A i \in 1..Len(navs) : navs[i].to = targetLink
            /\ overlay \in {"shown", "removed"}
            /\ Len(iframes) = taps
            /\ \A i \in 1..Len(iframes) : iframes[i] = IosDeeplinkOfTarget
            /\ timersSet = 1 + taps
            /\ \A t \in timers : t.kind = "fallback" => t = SafariTimer)
    /\ [][(branch = "iosStandalone" /\ page' = page
                /\ SafariTimer \in timers /\ SafariTimer \notin timers')
            => navs' = IF now < ElapsedLimitMs THEN Append(navs, Assign(targetLink))
                       ELSE navs]_vars
    /\ [][(branch = "iosStandalone" /\ taps' # taps)
            => /\ iframes' = Append(iframes, IosDeeplinkOfTarget)
               /\ timers' = timers \cup {[kind |-> "tap", how |-> "replace", tap |-> taps',
                                          due |-> now + IosTapDelayMs]}
               /\ navs' = navs]_vars
    /\ [][(branch = "iosStandalone" /\ page' = page
                /\ \E t \in timers : t.kind = "tap" /\ t \notin timers')
            => navs' = Append(navs, Replace(targetLink))]_vars

\* A tap at once loaded the iOS deep link of us in an iframe, and 50 ms
\* after it the page was sent to the web URL of us.
C20_Witness ==
    /\ branch = "iosStandalone" /\ taps = 1 /\ now = IosTapDelayMs
    /\ iframes = <<U_usIos>>
    /\ navs = <<Replace(U_us)>>
    /\ overlay = "removed"

\* ------------------------------------------------------------------------
\* Further claims about the dispatcher (checked under Spec, C24 under FairSpec)
\* ------------------------------------------------------------------------
\* The timers the handler set on its own, the ones a tap set left out.
AutoTimers(ts) == {t \in ts : t.kind # "tap"}

\* C21: nothing is retried. /amazonLinks.json is fetched at most once, by the
\* handler's first run only; the handler sets at most one timer of its own;
\* once it has returned, whatever happened (failed fetch, missing product, a
\* deep link that did not leave the page), no step fetches, sets a timer of
\* the handler again or navigates to anything but targetLink or the site
\* root, and a timer that ran is gone for good, so that at most two
\* navigations are issued without a tap.
C21_NoRetry ==
    /\ [](pc # "off" =>
            /\ fetches <= 1
            /\ timersSet - taps <= 1
            /\ Cardinality(AutoTimers(timers)) <= 1
            /\ Len(navs) <= 2 + taps)
    /\ [][pc = "loading" \/ fetches' = fetches]_vars
    /\ [][pc = "done" =>
            /\ AutoTimers(timers') \subseteq AutoTimers(timers)
            /\ \A i \in (Len(navs) + 1)..Len(navs') : navs'[i].to \in {targetLink, S_siteRoot}
            /\ Len(navs') > Len(navs) => timers' # timers]_vars

\* On Android Chrome the deep link of us did not leave the page; the page was
\* in the background until 1200 ms, the 900 ms timer then ran without
\* navigating, and nothing else is pending.
C21_Witness ==
    /\ branch = "androidChromium" /\ page = "visible" /\ taps = 0
    /\ fetches = 1 /\ timersSet = 1 /\ timers = {}
    /\ now = ElapsedLimitMs
    /\ navs = <<Assign(U_usAndroid)>>

\* C22 as stated: no navigation call is ever issued with an undefined or an
\* empty destination, whether or not the chosen variant has the deep link of
\* the platform.
C22_AsStated ==
    pc # "off" => \A i \in 1..Len(navs) : navs[i].to # Undefined /\ navs[i].to # <<>>

HasDeeplinkSuffix(k) == EndsWith(Str(k), S_deeplinkIos) \/ EndsWith(Str(k), S_deeplinkAndroid)

WebDestinations ==
    {S_slash, S_siteRoot, productPageUrl(productKey)}
        \cup (IF branch = "none" THEN {} ELSE {targetLink})

WebNavIssued == \E i \in 1..Len(navs) : navs[i].to \in WebDestinations

\* The handler returned on a page that redirects: skipredirect is not set and
\* the page is not the amzn page without a variant.
RedirectingLoad ==
    /\ pc = "done" /\ ~skipRedirect(href)
    /\ ~(productKey = S_amzn /\ variant = <<>>)

\* C24 as stated: on a redirecting page load a navigation to a web
\* destination is eventually issued, unless the page is put in the
\* background, left or tapped; on every branch, and whenever the pending
\* timer runs.
C24_AsStated ==
    RedirectingLoad ~> (WebNavIssued \/ page # "visible" \/ taps > 0)

\* The V of the first "variant=V" of a fragment, Null when it has none.
FragmentVariant(hash) ==
    LET i == IndexOf(hash, S_variantEq)
        tail == Drop(hash, i + Len(S_variantEq) - 1)
    IN  IF i = 0 THEN Null ELSE SubSeq(tail, 1, PrefixLenNot(tail, {"&"}))

\* C25 as stated: the variant is the query parameter when that is present
\* and not empty; otherwise the V of a fragment containing variant=V, the
\* fragment "#variant=V" included; otherwise, on the amzn page only, the file
\* name of the page unless that is "index"; otherwise empty.
C25_AsStated ==
    pc \in {"fetching", "done"} =>
        variant =
            IF Truthy(href.variantParam) THEN href.variantParam
            ELSE IF FragmentVariant(href.hash) # Null /\ FragmentVariant(href.hash) # <<>>
                 THEN FragmentVariant(href.hash)
            ELSE IF productKey = S_amzn /\ filename(href.pathname) # S_index
                 THEN filename(href.pathname)
            ELSE <<>>

\* The five tests of lines 152-161 for every user agent.
UaFlags ==
    [u \in UserAgents |->
        [mobile |-> isMobile(u), android |-> isAndroid(u), ios |-> isIOS(u),
         app |-> isAppBrowser(u), chromium |-> isChromiumAndroid(u)]]

\* The branch the precedence desktop, Android (in-app, Chromium, other), iOS
\* (in-app, standalone), other mobile gives a context with the flags f.
BranchByPrecedence(f) ==
    CASE ~f.mobile -> "desktop"
      [] f.mobile /\ f.android /\ f.app -> "androidApp"
      [] f.mobile /\ f.android /\ ~f.app /\ f.chromium -> "androidChromium"
      [] f.mobile /\ f.android /\ ~f.app /\ ~f.chromium -> "androidOther"
      [] f.mobile /\ ~f.android /\ f.ios /\ f.app -> "iosApp"
      [] f.mobile /\ ~f.android /\ f.ios /\ ~f.app -> "iosStandalone"
      [] f.mobile /\ ~f.android /\ ~f.ios -> "otherMobile"

\* What the branch b leaves behind and no other branch does: its first
\* navigation, whether it set a timer of its own, whether it showed the overlay.
RanOnly(b) ==
    /\ timersSet - taps = IF b \in {"androidApp", "androidChromium", "iosApp", "iosStandalone"}
                          THEN 1 ELSE 0
    /\ overlay # "none" <=> b \in {"androidChromium", "iosStandalone"}
    /\ b \in {"desktop", "androidOther", "otherMobile"} => Len(navs) = 1
    /\ b # "iosStandalone" =>
            /\ Len(navs) >= 1
            /\ navs[1] = CASE b \in {"desktop", "otherMobile"} -> Replace(targetLink)
                            [] b = "androidApp" ->
                                  Assign(normalizeIntentLink(AndroidDeeplinkOfTarget, targetLink))
                            [] b = "androidChromium" -> Assign(AndroidDeeplinkOfTarget)
                            [] b = "androidOther" -> Assign(targetLink)
                            [] b = "iosApp" -> Assign(S_xSafari \o targetLink)
    /\ b = "iosStandalone" => \A i \in 1..Len(navs) : navs[i].to = targetLink
    /\ \A t \in AutoTimers(timers) :
            t.kind = IF b \in {"androidApp", "iosApp"} THEN "root" ELSE "fallback"

\* C26: a dispatched page load ran exactly the branch the precedence gives
\* its user agent: a user agent that is Android and iOS both ran an Android
\* branch, an Android in-app one that names Chrome ran the in-app branch, and
\* a mobile one that is neither Android nor iOS issued one navigation, to
\* targetLink.
C26_OneBranch ==
    Dispatched =>
        LET f == UaFlags[ua]
        IN  /\ branch = BranchByPrecedence(f)
            /\ RanOnly(BranchByPrecedence(f))
            /\ (f.android /\ f.ios) =>
                    branch \in {"androidApp", "androidChromium", "androidOther"}
            /\ (f.android /\ f.app /\ f.chromium) =>
                    branch = "androidApp" /\ overlay = "none"
            /\ (f.mobile /\ ~f.android /\ ~f.ios) =>
                    navs = <<Replace(targetLink)>> /\ NoTimerNoOverlay

\* The user agent names Android and iPhone: the Android branch for other
\* browsers ran, with the iOS deep link of us in the table left alone.
C26_Witness ==
    /\ Dispatched /\ ua = UA_windowsPhone
    /\ UaFlags[ua].android /\ UaFlags[ua].ios
    /\ IosDeeplinkOfTarget = U_usIos
    /\ branch = "androidOther"
    /\ navs = <<Assign(U_us)>> /\ NoTimerNoOverlay

\* ------------------------------------------------------------------------
\* functions/api/cat-shelf-guide-email.js: onRequestPost and checkRateLimit
\* ------------------------------------------------------------------------
\* Every await of a handler is a step of its own; a handler runs from one
\* await to the next without interruption. The clock moves between requests:
\* its steps are hours, and a request is over in far less.
ClientIps == {IP_1}

\* The addresses that post: with one request at a time all of them at the
\* first instant and one of them from then on, with simultaneous requests two.
PostedEmails ==
    IF Len(reqs) > 1 THEN {E_a, E_b}
    ELSE IF clock = Arrivals[1] THEN Emails
    ELSE {E_a}

Slots == 1..Len(reqs)

AllDone == \A i \in Slots : reqs[i].pc = "done"

\* What no handler changes: the links clients make up, and the page, the
\* normalizer and the pipeline.
untouched == <<crafted, dispVars, normVars, deployVars>>

\* Where onRequestPost goes on after the rate limiting check (line 462).
afterLimit == IF env.DB THEN "select" ELSE "send"

\* The calls of checkRateLimit that returned { blocked: false }: one entry
\* per call, told apart by a running number among those of the same instant.
Pass(r) ==
    LET same == {q \in passed : q.email = r.email /\ q.ip = r.ip /\ q.at = r.at}
    IN  [email |-> r.email, ip |-> r.ip, at |-> r.at, n |-> Cardinality(same) + 1]

\* The slot of a request that has been answered keeps the response only.
Respond(r, status) ==
    [Idle EXCEPT !.kind = r.kind, !.limit = r.limit, !.status = status, !.mailed = r.mailed]

\* Time passes while no request is being handled.
Advance ==
    /\ AllDone
    /\ \E k \in 1..(Len(Arrivals) - 1) : clock = Arrivals[k] /\ clock' = Arrivals[k + 1]
    /\ UNCHANGED <<env, KV, DB, reqs, passed, outbox, untouched>>

\* Lines 433-446 and 378-381: the body is read and the address validated;
\* checkRateLimit returns at once without a KV binding, and takes
\* Date.now() otherwise.
onRequestPost(i) ==
    /\ reqs[i].pc = "done"
    /\ Cardinality(passed) < MaxPasses
    /\ \E email \in PostedEmails, ip \in ClientIps :
          LET r == [Idle EXCEPT !.kind = "guide-email", !.email = email, !.ip = ip]
          IN  reqs' = [reqs EXCEPT ![i] =
                  IF email = <<>> \/ ~emailRegexTest(email)
                  THEN Respond(r, 400)
                  ELSE IF ~env.KV THEN [r EXCEPT !.pc = afterLimit]
                  ELSE [r EXCEPT !.pc = "getEmail", !.at = clock]]
    /\ UNCHANGED <<env, clock, KV, DB, passed, outbox, untouched>>

\* Lines 385-398: the email's list is read and tested; a blocked request is
\* answered 429 (lines 448-459).
GetEmail(i) ==
    /\ reqs[i].pc = "getEmail"
    /\ LET r == reqs[i]
           emailData == KvGet(KV, emailKey(r.email), clock)
       IN  reqs' = [reqs EXCEPT ![i] =
               IF emailBlocked(emailData, r.at)
               THEN Respond([r EXCEPT !.limit = "email"], 429)
               ELSE [r EXCEPT !.pc = "putEmail", !.data = emailData]]
    /\ UNCHANGED <<env, clock, KV, DB, passed, outbox, untouched>>

\* Lines 400-407: the list that was read, with now pushed, is stored for a day.
PutEmail(i) ==
    /\ reqs[i].pc = "putEmail"
    /\ LET r == reqs[i]
       IN  /\ KV' = [KV EXCEPT ![emailKey(r.email)] =
                        KvValue(Append(r.data.requests, r.at), clock, 86400)]
           /\ reqs' = [reqs EXCEPT ![i] = [r EXCEPT !.pc = "getIp", !.data = KvAbsent]]
    /\ UNCHANGED <<env, clock, DB, passed, outbox, untouched>>

\* Lines 409-419: the IP's list is read and tested.
GetIp(i) ==
    /\ reqs[i].pc = "getIp"
    /\ LET r == reqs[i]
           ipData == KvGet(KV, ipKey(r.ip), clock)
       IN  reqs' = [reqs EXCEPT ![i] =
               IF ipBlocked(ipData, r.at)
               THEN Respond([r EXCEPT !.limit = "ip"], 429)
               ELSE [r EXCEPT !.pc = "putIp", !.data = ipData]]
    /\ UNCHANGED <<env, clock, KV, DB, passed, outbox, untouched>>

\* Lines 421-427: the IP's list is stored for an hour and the call returns
\* { blocked: false }.
PutIp(i) ==
    /\ reqs[i].pc = "putIp"
    /\ LET r == reqs[i]
       IN  /\ KV' = [KV EXCEPT ![ipKey(r.ip)] =
                        KvValue(Append(r.data.requests, r.at), clock, 3600)]
           /\ reqs' = [reqs EXCEPT ![i] = [r EXCEPT !.pc = afterLimit, !.data = KvAbsent]]
           /\ passed' = passed \cup {Pass(r)}
    /\ UNCHANGED <<env, clock, DB, outbox, untouched>>

\* env.GUIDE_SERVICE_TOKEN
Secret ==
    <<"s", "3">>

S_accessPath ==
    <<"h", "t", "t", "p", "s", ":", "/", "/", "o", "u", "t", "d", "o", "o", "r", "s", "a", "v", "a", "n", "n", "a", "h", ".", "c", "o", "m", "/", "a", "p", "i", "/", "g", "u", "i", "d", "e", "-", "a", "c", "c", "e", "s", "s", "?">>

S_email ==
    <<"e", "m", "a", "i", "l">>

S_token ==
    <<"t", "o", "k", "e", "n">>

S_guide ==
    <<"g", "u", "i", "d", "e">>

S_accessBase == S_accessPath \o S_email \o <<"=">>

S_tokenParam == <<"&">> \o S_token \o <<"=">>

S_guideParam == <<"&">> \o S_guide \o <<"=">>

G_catShelves ==
    <<"c", "a", "t", "-", "s", "h", "e", "l", "v", "e", "s">>

G_catWall ==
    <<"c", "a", "t", "-", "w", "a", "l", "l">>

\* The two lower-case hex digits of a character's code.
HexOfChar(c) ==
    LET e == CHOOSE i \in 1..Len(PctCodes) : PctCodes[i][1] = c
    IN  ToLowerCase(<<PctCodes[e][2], PctCodes[e][3]>>)

\* The hex digest that stands for SHA-256: the hex digits of the data itself,
\* so that two inputs have one digest only when they are equal.
RECURSIVE digestHex(_)
digestHex(data) ==
    IF data = <<>> THEN <<>>
    ELSE IF Len(data) = 1 THEN HexOfChar(data[1])
    ELSE digestHex(SubSeq(data, 1, Len(data) \div 2))
             \o digestHex(SubSeq(data, Len(data) \div 2 + 1, Len(data)))

\* generateToken(email, secret), both in cat-shelf-guide-email.js (lines
\* 287-295) and in guide-access.js (lines 65-73): the digest of email + secret.
generateToken(email, secret) == digestHex(email \o secret)

\* generateAccessUrl whose link carries the address as it is.
generateAccessUrl_Raw(userEmail, jwtSecret, guideName) ==
    S_accessBase \o userEmail
        \o S_tokenParam \o generateToken(userEmail, jwtSecret)
        \o S_guideParam \o guideName

\* Lines 287-299: the access link of an address.
generateAccessUrl(userEmail, jwtSecret, guideName) ==
    S_accessBase \o encodeURIComponent(userEmail)
        \o S_tokenParam \o generateToken(userEmail, jwtSecret)
        \o S_guideParam \o guideName

\* SQL NULL in the column unsubscribed_at.
SqlNull == -1

\* Lines 464-467: the row of the address is looked up.
Select(i) ==
    /\ reqs[i].pc = "select"
    /\ LET r == reqs[i]
           existing == DB[r.email]
       IN  reqs' = [reqs EXCEPT ![i] =
               [r EXCEPT !.pc = IF ~existing.present THEN "insert"
                                ELSE IF existing.unsubscribed = 1 THEN "resubscribe"
                                ELSE "send"]]
    /\ UNCHANGED <<env, clock, KV, DB, passed, outbox, untouched>>

\* Lines 471-475: an unsubscribed address is subscribed again.
Resubscribe(i) ==
    /\ reqs[i].pc = "resubscribe"
    /\ DB' = [DB EXCEPT ![reqs[i].email] =
                 IF @.present THEN [@ EXCEPT !.unsubscribed = 0, !.unsubscribed_at = SqlNull]
                 ELSE @]
    /\ reqs' = [reqs EXCEPT ![i].pc = "send"]
    /\ UNCHANGED <<env, clock, KV, passed, outbox, untouched>>

\* Lines 479-484: a new address gets its row.
Insert(i) ==
    /\ reqs[i].pc = "insert"
    /\ DB' = [DB EXCEPT ![reqs[i].email] =
                 [present |-> TRUE, unsubscribed |-> 0, unsubscribed_at |-> SqlNull]]
    /\ reqs' = [reqs EXCEPT ![i].pc = "send"]
    /\ UNCHANGED <<env, clock, KV, passed, outbox, untouched>>

\* Lines 486-496: a statement fails and the request is answered 500.
DatabaseError(i) ==
    /\ reqs[i].pc \in {"select", "resubscribe", "insert"}
    /\ reqs' = [reqs EXCEPT ![i] = Respond(@, 500)]
    /\ UNCHANGED <<env, clock, KV, DB, passed, outbox, untouched>>

\* Lines 499-673: the mail with the access link is handed to SES, which
\* takes it (200) or refuses it (500).
SendEmail(i) ==
    /\ reqs[i].pc = "send"
    /\ \E ok \in BOOLEAN :
          LET r == reqs[i]
          IN  IF ok
              THEN /\ reqs' = [reqs EXCEPT ![i] =
                                  Respond([r EXCEPT !.mailed = TRUE], 200)]
                   /\ outbox' = outbox \cup
                          {[to |-> r.email,
                            link |-> generateAccessUrl(r.email, Secret, G_catShelves)]}
              ELSE /\ reqs' = [reqs EXCEPT ![i] = Respond(r, 500)]
                   /\ UNCHANGED outbox
    /\ UNCHANGED <<env, clock, KV, DB, passed, untouched>>

\* The API with no page, normalizer or pipeline beside it.
ApiOnly ==
    /\ NoPage
    /\ nUrl = Undefined /\ nParams = 0 /\ nFallback = Undefined
    /\ nResult = Undefined /\ nPc = "off"
    /\ NoDeploy
    /\ clock = 0
    /\ KV = [k \in KvKeys |-> KvAbsent]
    /\ DB = [e \in Emails |-> NoRow]
    /\ passed = {}
    /\ outbox = {}

\* ------------------------------------------------------------------------
\* The guide-email endpoint with a KV store, its requests one at a time
\* ------------------------------------------------------------------------
RateInit ==
    /\ ApiOnly
    /\ crafted = {}
    /\ env = [KV |-> TRUE, DB |-> FALSE, bucket |-> FALSE]
    /\ reqs = <<Idle>>

RateNext ==
    \/ Advance
    \/ onRequestPost(1)
    \/ GetEmail(1)
    \/ PutEmail(1)
    \/ GetIp(1)
    \/ PutIp(1)
    \/ SendEmail(1)

SpecRate == RateInit /\ [][RateNext]_vars

\* C27: with a KV store and one request at a time, no more than 3 calls of
\* checkRateLimit pass for one address in any hour and no more than 5 in any
\* 24 hours, no more than 10 pass for one IP in any hour (the hour and the
\* day that end with a passing call, their first instant left out), and a
\* blocked request is answered 429 and has no mail sent.
PassesWithin(p, span, same(_)) ==
    Cardinality({q \in passed : same(q) /\ q.at > p.at - span /\ q.at <= p.at})

C27_RateLimits ==
    /\ \A p \in passed :
          LET sameEmail(q) == q.email = p.email
              sameIp(q) == q.ip = p.ip
          IN  /\ PassesWithin(p, oneHour, sameEmail) <= 3
              /\ PassesWithin(p, oneDay, sameEmail) <= 5
              /\ PassesWithin(p, oneHour, sameIp) <= 10
    /\ \A i \in Slots :
          reqs[i].limit # "none" => reqs[i].status = 429 /\ ~reqs[i].mailed

\* Every limit has blocked a request, after as many as it allows have passed.
C27_Witness ==
    /\ env.KV /\ Len(reqs) = 1
    /\ reqs[1].limit = "ip" /\ reqs[1].status = 429
    /\ \E p \in passed :
          /\ Cardinality({q \in passed : q.ip = p.ip /\ q.at > p.at - oneHour /\ q.at <= p.at}) = 10
          /\ Cardinality({q \in passed : q.email = p.email /\ q.at > p.at - oneHour /\ q.at <= p.at}) = 3

\* ------------------------------------------------------------------------
\* The guide-email endpoint with a KV store, two requests at a time
\* ------------------------------------------------------------------------
RaceInit ==
    /\ ApiOnly
    /\ crafted = {}
    /\ env = [KV |-> TRUE, DB |-> FALSE, bucket |-> FALSE]
    /\ reqs = <<Idle, Idle>>

RaceNext ==
    \E i \in 1..2 :
        \/ onRequestPost(i)
        \/ GetEmail(i)
        \/ PutEmail(i)
        \/ GetIp(i)
        \/ PutIp(i)
        \/ SendEmail(i)

SpecRace == RaceInit /\ [][RaceNext]_vars

\* C28: with requests handled concurrently, no more than 3 calls of
\* checkRateLimit pass for one address in an hour and no more than 10 for one
\* IP, and the stored list of an address and of an IP holds the timestamp of
\* every call that passed.
C28_AsStated ==
    /\ \A p \in passed :
          /\ Cardinality({q \in passed : q.email = p.email /\ q.at > p.at - oneHour /\ q.at <= p.at}) <= 3
          /\ Cardinality({q \in passed : q.ip = p.ip /\ q.at > p.at - oneHour /\ q.at <= p.at}) <= 10
    /\ \A e \in Emails :
          Len(KV[emailKey(e)].requests) >= Cardinality({q \in passed : q.email = e})
    /\ \A a \in ClientIps :
          Len(KV[ipKey(a)].requests) >= Cardinality({q \in passed : q.ip = a})

\* ------------------------------------------------------------------------
\* functions/api/unsubscribe.js: onRequest
\* ------------------------------------------------------------------------
E_malformed ==
    <<"a", "@", "x">>

\* searchParams.get('email'): no parameter (the empty sequence stands for
\* null and for ''), a malformed address, or an address.
UnsubEmails == {<<>>, E_malformed} \cup Emails

\* Lines 9-75: a missing or malformed address is answered 400.
onRequest(i) ==
    /\ reqs[i].pc = "done"
    /\ \E email \in UnsubEmails :
          LET r == [Idle EXCEPT !.kind = "unsubscribe", !.email = email]
          IN  reqs' = [reqs EXCEPT ![i] =
                  IF email = <<>> \/ ~emailRegexTest(email)
                  THEN Respond(r, 400)
                  ELSE [r EXCEPT !.pc = "unsubSelect"]]
    /\ UNCHANGED <<env, clock, KV, DB, passed, outbox, untouched>>

\* UnsubSelect without the test for a row that is unsubscribed already.
UnsubSelect_NoAlready(i) ==
    /\ reqs[i].pc = "unsubSelect"
    /\ env.DB
    /\ LET r == reqs[i]
           result == DB[r.email]
       IN  reqs' = [reqs EXCEPT ![i] =
               IF ~result.present THEN Respond(r, 404)
               ELSE [r EXCEPT !.pc = "unsubUpdate"]]
    /\ UNCHANGED <<env, clock, KV, DB, passed, outbox, untouched>>

\* Lines 79-143: the row is looked up; no row is answered 404, a row that is
\* unsubscribed already 200 with nothing written.
UnsubSelect(i) ==
    /\ reqs[i].pc = "unsubSelect"
    /\ env.DB
    /\ LET r == reqs[i]
           result == DB[r.email]
       IN  reqs' = [reqs EXCEPT ![i] =
               IF ~result.present THEN Respond(r, 404)
               ELSE IF result.unsubscribed = 1 THEN Respond(r, 200)
               ELSE [r EXCEPT !.pc = "unsubUpdate"]]
    /\ UNCHANGED <<env, clock, KV, DB, passed, outbox, untouched>>

\* Lines 145-184: the row is marked unsubscribed and stamped.
UnsubUpdate(i) ==
    /\ reqs[i].pc = "unsubUpdate"
    /\ DB' = [DB EXCEPT ![reqs[i].email] =
                 IF @.present THEN [@ EXCEPT !.unsubscribed = 1, !.unsubscribed_at = clock]
                 ELSE @]
    /\ reqs' = [reqs EXCEPT ![i] = Respond(@, 200)]
    /\ UNCHANGED <<env, clock, KV, passed, outbox, untouched>>

\* Lines 186-220: a statement fails (or there is no DB binding) and the
\* request is answered 500.
UnsubError(i) ==
    /\ reqs[i].pc \in {"unsubSelect", "unsubUpdate"}
    /\ reqs' = [reqs EXCEPT ![i] = Respond(@, 500)]
    /\ UNCHANGED <<env, clock, KV, DB, passed, outbox, untouched>>

\* ------------------------------------------------------------------------
\* The guide-email and the unsubscribe endpoint on one table
\* ------------------------------------------------------------------------
SubsInit ==
    /\ ApiOnly
    /\ crafted = {}
    /\ env = [KV |-> FALSE, DB |-> TRUE, bucket |-> FALSE]
    /\ reqs = <<Idle>>

SubsNext ==
    \/ Advance
    \/ onRequestPost(1)
    \/ Select(1)
    \/ Resubscribe(1)
    \/ Insert(1)
    \/ DatabaseError(1)
    \/ SendEmail(1)
    \/ onRequest(1)
    \/ UnsubSelect(1)
    \/ UnsubUpdate(1)
    \/ UnsubError(1)

SpecSubs == SubsInit /\ [][SubsNext]_vars

\* A step of an unsubscribe request.
UnsubStep == reqs' # reqs /\ reqs'[1].kind = "unsubscribe"

\* The address an unsubscribe step is about.
UnsubAddress == IF reqs[1].pc = "done" THEN <<>> ELSE reqs[1].email

\* C29: a step of the unsubscribe endpoint never creates a row, changes a row
\* only by taking its flag from 0 to 1, changes nothing when it answers 400 or
\* 404, answers 200 only with the flag at 1, and changes nothing for an
\* address whose flag is 1 already.
C29_Unsubscribe ==
    [][UnsubStep =>
          /\ \A e \in Emails :
                /\ DB'[e].present = DB[e].present
                /\ DB'[e] # DB[e] =>
                      /\ e = UnsubAddress
                      /\ DB[e].unsubscribed = 0 /\ DB'[e].unsubscribed = 1
          /\ DB' # DB => reqs'[1].status = 200
          /\ reqs'[1].status \in {400, 404} => DB' = DB
          /\ reqs'[1].status = 404 => ~DB[UnsubAddress].present
          /\ reqs'[1].status = 200 => DB'[UnsubAddress].unsubscribed = 1
          /\ (UnsubAddress \in Emails /\ DB[UnsubAddress].unsubscribed = 1) => DB' = DB
          /\ (reqs[1].pc = "unsubSelect" /\ DB[UnsubAddress].present
                 /\ DB[UnsubAddress].unsubscribed = 0 /\ reqs'[1].status # 500)
                => reqs'[1].pc = "unsubUpdate"
      ]_vars

\* Two addresses have been unsubscribed, one at the start and one an hour
\* later, a third has no row, and a day later an unsubscribe is answered 200.
C29_Witness ==
    /\ reqs[1].kind = "unsubscribe" /\ reqs[1].status = 200
    /\ DB[E_a].present /\ DB[E_a].unsubscribed = 1 /\ DB[E_a].unsubscribed_at = oneHour
    /\ DB[E_b].present /\ DB[E_b].unsubscribed = 1 /\ DB[E_b].unsubscribed_at = 0
    /\ ~DB[E_c].present
    /\ clock = oneDay

\* ------------------------------------------------------------------------
\* functions/api/guide-access.js and its R2 binding variant: onRequestGet
\* ------------------------------------------------------------------------
G_unknown ==
    <<"n", "o", "p", "e">>

\* application/x-www-form-urlencoded decoding as URLSearchParams does it: "+"
\* is a space, a well-formed escape its character, anything else itself.
formDecode(s) ==
    LET isEscape(t, i) == /\ t[i] = "%" /\ i + 2 <= Len(t)
                          /\ DecodeEscape(t[i + 1], t[i + 2]) # "<none>"
        decoded(t, kept) ==
            [k \in 1..Len(kept) |->
                IF isEscape(t, kept[k]) THEN DecodeEscape(t[kept[k] + 1], t[kept[k] + 2])
                ELSE t[kept[k]]]
        unescaped(t) ==
            LET keep(i) == /\ ~(i > 1 /\ isEscape(t, i - 1))
                           /\ ~(i > 2 /\ isEscape(t, i - 2))
            IN  CHOOSE r \in {decoded(t, kept) :
                                 kept \in {SelectSeq([i \in 1..Len(t) |-> i], keep)}} : TRUE
    IN  CHOOSE r \in {unescaped(t) :
                         t \in {[i \in 1..Len(s) |-> IF s[i] = "+" THEN " " ELSE s[i]]}} : TRUE

\* The query of a URL: what lies between the first "?" and the fragment.
queryOf(url) ==
    LET h == IndexOf(url, <<"#">>)
        noHash == IF h = 0 THEN url ELSE SubSeq(url, 1, h - 1)
        q == IndexOf(noHash, <<"?">>)
    IN  IF q = 0 THEN <<>> ELSE Drop(noHash, q)

\* url.searchParams.get(name): the value of the first pair of that name; the
\* empty sequence stands for null as for '', which the handler tells not apart.
searchParamsGet(url, name) ==
    LET eq(p) == IndexOf(p, <<"=">>)
        nameOf(p) == formDecode(IF eq(p) = 0 THEN p ELSE SubSeq(p, 1, eq(p) - 1))
        valueOf(p) == formDecode(IF eq(p) = 0 THEN <<>> ELSE Drop(p, eq(p)))
        get(pairs) ==
            LET hits == {i \in 1..Len(pairs) : pairs[i] # <<>> /\ nameOf(pairs[i]) = name}
            IN  IF hits = {} THEN <<>>
                ELSE valueOf(pairs[CHOOSE i \in hits : \A j \in hits : i <= j])
    IN  CHOOSE v \in {get(pairs) : pairs \in {Split(queryOf(url), <<"&">>)}} : TRUE

\* guideUrls (guide-access.js, lines 25-28) and guideFiles (the R2 binding
\* variant, lines 26-30).
KnownGuides == IF env.bucket THEN {G_catShelves, G_catWall} ELSE {G_catShelves}

\* The links a client asks for, besides those that were mailed: every choice
\* of an email parameter (none, an address, an address with "+" escaped or as
\* it is), a token parameter (none, empty, the token of an address) and a
\* guide parameter (none, a guide of one variant or of both, no guide).
EmailParams == {<<>>, encodeURIComponent(E_a), encodeURIComponent(E_plus), E_plus}

TokenParams == {<<"-">>, <<>>, generateToken(E_a, Secret), generateToken(E_plus, Secret)}

GuideParams == {<<>>, G_catShelves, G_catWall, G_unknown}

CraftedUrl(e, t, g) ==
    LET parts == (IF e = <<>> THEN <<>> ELSE <<S_email \o <<"=">> \o e>>)
                     \o (IF t = <<"-">> THEN <<>> ELSE <<S_token \o <<"=">> \o t>>)
                     \o (IF g = <<>> THEN <<>> ELSE <<S_guide \o <<"=">> \o g>>)
    IN  S_accessPath \o Join(parts, <<"&">>)

CraftedUrls == {CraftedUrl(e, t, g) : e \in EmailParams, t \in TokenParams, g \in GuideParams}

\* What the storage may answer: the CDN fetch is ok or not (guide-access.js,
\* lines 37-47); the bucket has no object, one that is no PDF, the PDF, or a
\* range of it (R2 variant, lines 62-112); either call may throw.
FetchOutcomes ==
    IF env.bucket THEN {"ok", "partial", "missing", "invalid", "failed"}
    ELSE {"ok", "failed"}

StatusOf(outcome) ==
    CASE outcome = "ok" -> 200
      [] outcome = "partial" -> 206
      [] outcome = "missing" -> 404
      [] OTHER -> 500

\* A client asks for a link: one that was mailed or one it has made up.
AccessRequest(i) ==
    /\ reqs[i].pc = "done"
    /\ \E url \in crafted \cup {l.link : l \in outbox} :
          reqs' = [reqs EXCEPT ![i] =
                      [Idle EXCEPT !.kind = "guide-access", !.pc = "received", !.url = url]]
    /\ UNCHANGED <<env, clock, KV, DB, passed, outbox, untouched>>

\* onRequestGet that looks the guide up without testing the token.
onRequestGet_NoTokenTest(i) ==
    /\ reqs[i].pc = "received"
    /\ \E token \in {searchParamsGet(reqs[i].url, S_token)},
          email \in {searchParamsGet(reqs[i].url, S_email)},
          given \in {searchParamsGet(reqs[i].url, S_guide)} :
       LET guide == IF given = <<>> THEN G_catShelves ELSE given
           r == [reqs[i] EXCEPT !.pc = "done", !.token = token, !.email = email,
                                !.guide = guide]
       IN  reqs' = [reqs EXCEPT ![i] =
               IF guide \notin KnownGuides THEN [r EXCEPT !.status = 404]
               ELSE [r EXCEPT !.pc = "fetchPdf"]]
    /\ UNCHANGED <<env, clock, KV, DB, passed, outbox, untouched>>

\* Lines 6-34: a request without token or email, or whose token is not that of
\* its email, is answered 403; one for an unknown guide 404.
onRequestGet(i) ==
    /\ reqs[i].pc = "received"
    /\ \E token \in {searchParamsGet(reqs[i].url, S_token)},
          email \in {searchParamsGet(reqs[i].url, S_email)},
          given \in {searchParamsGet(reqs[i].url, S_guide)} :
       LET guide == IF given = <<>> THEN G_catShelves ELSE given
           r == [reqs[i] EXCEPT !.pc = "done", !.token = token, !.email = email,
                                !.guide = guide]
       IN  reqs' = [reqs EXCEPT ![i] =
               IF token = <<>> \/ email = <<>> THEN [r EXCEPT !.status = 403]
               ELSE IF token # generateToken(email, Secret) THEN [r EXCEPT !.status = 403]
               ELSE IF guide \notin KnownGuides THEN [r EXCEPT !.status = 404]
               ELSE [r EXCEPT !.pc = "fetchPdf"]]
    /\ UNCHANGED <<env, clock, KV, DB, passed, outbox, untouched>>

\* Lines 36-56 (R2 variant 38-112): the PDF is fetched from storage and
\* returned, or the failure answered.
FetchPdf(i) ==
    /\ reqs[i].pc = "fetchPdf"
    /\ \E outcome \in FetchOutcomes :
          reqs' = [reqs EXCEPT ![i].pc = "done", ![i].fetched = TRUE,
                               ![i].status = StatusOf(outcome)]
    /\ UNCHANGED <<env, clock, KV, DB, passed, outbox, untouched>>

\* ------------------------------------------------------------------------
\* The guide-email and the guide-access endpoint under one secret
\* ------------------------------------------------------------------------
AccessInit ==
    /\ ApiOnly
    /\ crafted = CraftedUrls
    /\ env \in {[KV |-> FALSE, DB |-> FALSE, bucket |-> b] : b \in BOOLEAN}
    /\ reqs = <<Idle>>

AccessNext ==
    \/ onRequestPost(1)
    \/ SendEmail(1)
    \/ AccessRequest(1)
    \/ onRequestGet(1)
    \/ FetchPdf(1)

SpecAccess == AccessInit /\ [][AccessNext]_vars

\* The token of the request is the one generateAccessUrl embeds for its email.
TokenMatches(r) == r.email # <<>> /\ r.token = generateToken(r.email, Secret)

\* The request was answered with the guide, whole or a range of it.
Served(r) == r.pc = "done" /\ r.status \in {200, 206}

\* C30 as stated: a request to the guide-access endpoint is answered with the
\* guide if and only if its token is the token of its email.
C30_AsStated ==
    \A i \in Slots :
        (reqs[i].kind = "guide-access" /\ reqs[i].pc = "done")
            => (Served(reqs[i]) <=> TokenMatches(reqs[i]))

\* C30: the guide is returned, and storage asked for it, only for a request
\* whose token is the token of its email; a mailed link carries its own
\* address and its token and gets as far as storage; a request without token
\* or email or with another address's token is answered 403 with no fetch;
\* with the right token the answer is the guide unless the guide is unknown
\* (404, no fetch) or storage fails (404 or 500).
C30_TokenGate ==
    \A i \in Slots :
        LET r == reqs[i]
        IN  (r.kind = "guide-access" /\ r.pc # "received") =>
              /\ (Served(r) \/ r.fetched \/ r.pc = "fetchPdf") => TokenMatches(r)
              /\ \A l \in outbox : l.link = r.url =>
                    /\ r.email = l.to
                    /\ TokenMatches(r)
                    /\ r.pc = "done" => r.fetched /\ r.status \in {200, 206, 404, 500}
              /\ (r.pc = "done" /\ ~TokenMatches(r)) => r.status = 403 /\ ~r.fetched
              /\ \A e \in Emails :
                    (r.pc = "done" /\ e # r.email /\ r.token = generateToken(e, Secret))
                        => r.status = 403
              /\ (r.pc = "done" /\ TokenMatches(r)) =>
                    IF r.guide \in KnownGuides
                    THEN r.fetched /\ r.status \in {200, 206, 404, 500}
                    ELSE r.status = 404 /\ ~r.fetched

\* The link mailed to an address with a "+" is asked for and the guide returned.
C30_Witness ==
    /\ reqs[1].kind = "guide-access" /\ Served(reqs[1])
    /\ reqs[1].email = E_plus
    /\ \E l \in outbox : l.link = reqs[1].url /\ l.to = E_plus

====
